---- MODULE Spec2Model ----
(***************************************************************************)
(* A model of package mtx (src/mtx.go): a value guarded by a sync.Mutex or *)
(* a sync.RWMutex and reachable only through the scoped helpers withE and  *)
(* rWithE, with the Load/Store/Swap, Number and Map operations built on    *)
(* them.  Goroutines are the threads 1..MaxThreads; every operation is     *)
(* split at the points where the Go scheduler may preempt it: the call,    *)
(* the lock acquisition, each statement of the closure body that touches   *)
(* the guarded value, and the deferred unlock followed by the return.      *)
(***************************************************************************)
EXTENDS Integers, Sequences, FiniteSets, TLC

\* ---------------------------------------------------------------- bounds
MaxThreads == 2      \* goroutines calling into one guarded instance
MaxCalls == 3        \* operations invoked in all by concurrent goroutines
SeqCalls == 2        \* operations invoked by a lone goroutine
MaxKey == 1          \* map keys are 0..MaxKey (0 is the zero value of K)
MaxVal == 1          \* map values are 0..MaxVal (0 is the zero value of V)
MaxDelta == 1        \* Add/Sub deltas are 1..MaxDelta
NumBits == 2         \* width w of the modelled unsigned integer type
MaxLen == 2          \* a slice starts with at most MaxLen elements
MaxSpare == 1        \* spare capacity (beyond the length) of a freshly allocated array

Threads == 1..MaxThreads
\* Workload "readers" runs one goroutine more: two readers and a writer.
Procs == 1..(MaxThreads + 1)
Keys == 0..MaxKey
Vals == 0..MaxVal
Deltas == 1..MaxDelta
Mod == 2 ^ NumBits
\* Slice indexes passed to Get, Insert and Remove: in range and out of range on both sides.
Idx == (-1)..(MaxLen + 1)

VARIABLES
    work,      \* the workload: which container type and operations are exercised
    variant,   \* the wrapper type: "mtx", "rwMtx", "baseMutex", "baseRWMutex"
    nthr,      \* number of goroutines that call into the instance
    mu,        \* the lock m.m: [w: exclusive holder, r: shared holders, p: announced writer]
    mu2,       \* the lock of a second instance of the same wrapper type (used by the
               \*   workloads whose callbacks call into another instance)
    v,         \* the guarded field m.v (a map is a reference into heap, a slice a
               \*   header [a: reference of its backing array, off, len])
    heap,      \* the map objects and the slices' backing arrays, by reference
    pc,        \* per goroutine: "idle", "lock", "wait", "cb", "cbw", "unlock"
    call,      \* per goroutine: the operation in progress (or the last one) and its arguments
    tmp,       \* per goroutine: the closure's local read of the guarded value (0 outside)
    ret,       \* per goroutine: what the operation returns to its caller
    ncalls,    \* operations invoked so far
    pre,       \* history: content of the guarded value when the goroutine acquired the lock
    runs,      \* history: how often the current call's callback was entered
    sum,       \* history: initial number plus the deltas of all returned Add/Sub calls
    given,     \* history: the values returned by the Swap calls (and by the removals of
               \* the runs of Pops and of Shifts) that have returned, in order
               \*   (workload "manual": the values written through GetPointer without the lock)
    stat,      \* history (workload "race"): per map key, Inserts done, Removes done
               \*   and Removes that found the key
    v0,        \* history (workloads "race", "number", "manual", "once"): the initial content
    last,      \* history: a lone goroutine's previous call, its result and the content it saw
    committed  \* history (workload "shrink"): the contents the slice had at the start
               \*   and whenever an operation released the lock

vars == <<work, variant, nthr, mu, mu2, v, heap, pc, call, tmp, ret, ncalls, pre, runs, sum, given,
          stat, v0, last, committed>>

\* ------------------------------------------------------- types and wiring
Variants == {"mtx", "rwMtx", "baseMutex", "baseRWMutex"}

\* sync.Mutex backs mtx and baseMutex, sync.RWMutex backs rwMtx and baseRWMutex.
Backend(var) == IF var \in {"mtx", "baseMutex"} THEN "Mutex" ELSE "RWMutex"

\* The kind of T of each workload.
Kind(w) ==
    CASE w \in {"value", "scope", "zero", "view", "paired", "stuck"} -> "value"
      [] w \in {"number", "manual", "arith"} -> "number"
      [] w \in {"map", "race", "mapcopy", "once", "mapview", "mapload", "snapshot",
                "each", "mapclear"} -> "map"
      [] w \in {"slice", "example", "shrink", "copy", "sliceeach", "sliceclear",
                "pops", "shifts"} -> "slice"
      [] w \in {"readers", "reenter", "cross", "ordered"} -> "value"

NoThread == 0
NilErr == "nil"

\* A variant in which with calls rWithE: every closure runs under RLock.
UsesRWithAlways(o) == TRUE

\* Operations that run their closure through rWith/rWithE (all others use with/withE).
UsesRWith(o) ==
    o \in {"Load", "RWith", "RWithE", "Get", "ContainsKey", "GetKeyValue", "Len",
          "Clone", "Filter", "IsEmpty", "Keys", "Values", "Each"}

\* Load, Store, Swap, With and WithE exist only on base, baseMutex and baseRWMutex.
BaseMethods == {"Load", "Store", "Swap", "With", "WithE"}

\* The static type M the generic helper is instantiated with.  mtx and rwMtx embed
\* *base: a method promoted from base runs with the base receiver, whose RLock is
\* Lock.  rwMtx overrides only RLock, RUnlock, RWith and RWithE; Map, Slice and
\* Number call the helpers on their Locker interface, which dispatches to rwMtx.
Receiver(var, o) ==
    CASE var = "mtx" -> "base"
      [] var = "rwMtx" -> IF o \in BaseMethods THEN "base" ELSE "rwMtx"
      [] OTHER -> var

\* A variant in which RLock takes a read lock on every receiver.
RLockIsSharedAlways(recv) == TRUE

\* RLock of the receiver takes the read lock of a sync.RWMutex only for rwMtx and
\* baseRWMutex; base.RLock and baseMutex.RLock call Lock.
RLockIsShared(recv) == recv \in {"rwMtx", "baseRWMutex"}

\* A variant in which every wrapper type reaches its lock and value through a pointer.
NilReceiverAlways(w, var) == w = "zero"

\* Workload "zero" declares the instance and calls no constructor (var m X[int]).
\* Mutex and RWMutex embed baseMutex and baseRWMutex by value: the zero struct is a
\* zero sync.Mutex / sync.RWMutex and a zero v.  Mtx embeds the Locker interface,
\* which NewMtx / NewRWMtx fill with a *mtx / *rwMtx: without them it is nil.
NilReceiver(w, var) == w = "zero" /\ var \in {"mtx", "rwMtx"}

\* The methods a caller brackets its own use of GetPointer with.
LockMethods == {"Lock", "RLock"}
UnlockMethods == {"Unlock", "RUnlock"}

\* The mode in which operation o holds the lock: "S" shared, "X" exclusive.  RLock
\* and RUnlock are the receiver's own; rWithE calls them on the receiver.
Mode(var, o) ==
    IF (UsesRWith(o) \/ o \in {"RLock", "RUnlock"}) /\ RLockIsShared(Receiver(var, o))
    THEN "S" ELSE "X"

\* A variant in which no receiver has an RUnlock of its own: all call Unlock.
RUnlockIsSharedNever(recv) == FALSE

\* RUnlock of the receiver releases the read lock of a sync.RWMutex for rwMtx and
\* baseRWMutex; base.RUnlock and baseMutex.RUnlock call Unlock.
RUnlockIsShared(recv) == recv \in {"rwMtx", "baseRWMutex"}

\* What the deferred call of operation o releases: "S" the read lock, "X" the lock.
UnlockMode(var, o) ==
    IF (UsesRWith(o) \/ o \in {"RLock", "RUnlock"}) /\ RUnlockIsShared(Receiver(var, o))
    THEN "S" ELSE "X"

\* --------------------------------------------------------------- the lock
Unlocked == [w |-> NoThread, r |-> {}, p |-> NoThread]

\* sync.Mutex.Lock / sync.RWMutex.Lock can proceed.  A writer of an RWMutex first
\* announces itself (which stops new readers) and then waits for the readers to leave.
CanAnnounce(m) == m.w = NoThread /\ m.p = NoThread
\* A variant in which a writer that has announced itself does not wait for the readers.
CanLockEager(m, t, backend) ==
    IF backend = "Mutex" THEN m.w = NoThread
    ELSE m.p = t

CanLock(m, t, backend) ==
    IF backend = "Mutex" THEN m.w = NoThread
    ELSE m.p = t /\ m.r = {}
CanRLock(m) == m.w = NoThread /\ m.p = NoThread

Announce(m, t) == [m EXCEPT !.p = t]
Lock(m, t) == [m EXCEPT !.w = t, !.p = NoThread]
RLock(m, t) == [m EXCEPT !.r = @ \cup {t}]
Unlock(m, t) == [m EXCEPT !.w = NoThread]
RUnlock(m, t) == [m EXCEPT !.r = @ \ {t}]

Holds(t) == mu.w = t \/ t \in mu.r

\* ------------------------------------------------------------ the value
\* The content the guarded field denotes: a map field is a reference.
Deref(k, x, hp) ==
    CASE k = "map" -> hp[x]
      [] k = "slice" -> SubSeq(hp[x.a], x.off + 1, x.off + x.len)
      [] OTHER -> x

Content == Deref(Kind(work), v, heap)

MapPut(m, k, x) == [y \in DOMAIN m \cup {k} |-> IF y = k THEN x ELSE m[y]]
MapDel(m, k) == [y \in DOMAIN m \ {k} |-> m[y]]
MapLookup(m, k) ==
    IF k \in DOMAIN m THEN [val |-> m[k], ok |-> TRUE] ELSE [val |-> 0, ok |-> FALSE]

\* ---- Go slices: a header over a backing array
Header(a, off, len) == [a |-> a, off |-> off, len |-> len]
\* The elements s[0], ..., s[len(s)-1] of the slice with header s.
Elems(hp, s) == SubSeq(hp[s.a], s.off + 1, s.off + s.len)
\* cap(s): what is left of the backing array from the slice's first element on.
Cap(hp, s) == Len(hp[s.a]) - s.off
Zeros(n) == [j \in 1..n |-> 0]
\* The reference of the next allocated object.
NewRef(hp) == Len(hp) + 1
\* s[i] can be evaluated: 0 <= i < len(s); s[i:] can: 0 <= i <= len(s).
InRange(s, i) == 0 <= i /\ i < s.len
CanSliceFrom(s, i) == 0 <= i /\ i <= s.len
\* s[i], for i in range.
At(hp, s, i) == hp[s.a][s.off + i + 1]
\* The backing array after s[i] = x.
SetAt(arr, s, i, x) == [arr EXCEPT ![s.off + i + 1] = x]

\* make([]E, n): a new zeroed array of exactly n elements.
Make(hp, n) == [s |-> Header(NewRef(hp), 0, n), heap |-> Append(hp, Zeros(n))]

\* append(s, els...): in place when the capacity suffices, else into a new array
\* with room for sp more elements (how much room is the runtime's choice).
GoAppend(hp, s, els, sp) ==
    IF s.len + Len(els) <= Cap(hp, s)
    THEN [s |-> Header(s.a, s.off, s.len + Len(els)),
          heap |-> [hp EXCEPT ![s.a] =
                       [j \in DOMAIN @ |->
                           IF j > s.off + s.len /\ j <= s.off + s.len + Len(els)
                           THEN els[j - s.off - s.len] ELSE @[j]]]]
    ELSE [s |-> Header(NewRef(hp), 0, s.len + Len(els)),
          heap |-> Append(hp, Elems(hp, s) \o els \o Zeros(sp))]

\* copy(s[i+1:], s[i:]) within one array: the elements at i.. move one to the right.
CopyRight(arr, s, i) ==
    [j \in DOMAIN arr |->
        IF j > s.off + i + 1 /\ j <= s.off + s.len THEN arr[j - 1] ELSE arr[j]]
\* copy(s[i:], s[i+1:]) within one array: the elements after i move one to the left;
\* the number of elements copied is len(s) - i - 1.
CopyLeft(arr, s, i) ==
    [j \in DOMAIN arr |->
        IF j >= s.off + i + 1 /\ j < s.off + s.len THEN arr[j + 1] ELSE arr[j]]
Copied(s, i) == s.len - i - 1

\* The elements of a sequence that are in the set keep, in order.
RECURSIVE Kept(_, _)
Kept(q, keep) ==
    IF q = <<>> THEN <<>>
    ELSE (IF Head(q) \in keep THEN <<Head(q)>> ELSE <<>>) \o Kept(Tail(q), keep)

\* ptr is the pointer GetPointer returned: "nil" for none, "v" for &m.v.
NoRet == [val |-> 0, ok |-> FALSE, key |-> 0, err |-> NilErr, panic |-> FALSE,
          ptr |-> "nil"]
\* A call: the method op with its arguments k, x, els, keep on instance inst, and
\* what its callback does (body; e is the error it returns or "panic").  A callback
\* of body "call" calls the method inner on instance on; that call carries the
\* method (outer) and the instance (oinst) of the call whose callback made it.
NoCall == [op |-> "none", k |-> 0, x |-> 0, body |-> "", e |-> NilErr,
           els |-> <<>>, keep |-> {},
           inst |-> 1, inner |-> "none", on |-> 1, outer |-> "none", oinst |-> 1]
NoLast == [call |-> NoCall, ret |-> NoRet, pre |-> 0]
NoStat == [ins |-> 0, rem |-> 0, won |-> 0]

\* A value no other call stores: the number of the call.
Label(n) == n + 1

\* ------------------------------------------------- the closures' bodies
\* What one step of a closure leaves behind: the guarded field, the heap, the
\* closure's local, the operation's results, and whether a second step follows.
St(vv, hp, tm, r, more) == [v |-> vv, heap |-> hp, tmp |-> tm, ret |-> r, more |-> more]

\* A variant in which the captured value never leaves the closure.
loadZero(vv, r) == [r EXCEPT !.val = 0]

\* load: out = v
load(vv, r) == [r EXCEPT !.val = vv]
\* A variant that drops the new value.
storeLost(newV) == 0

\* store: *v = newV
store(newV) == newV
\* swap: old, *v = *v, newVal
swapOld(vv, r) == [r EXCEPT !.val = vv]
swapNew(newVal) == newVal
\* A variant of add that stops at the largest value of the type.
addSaturating(tm, diff) == IF tm + diff >= Mod THEN Mod - 1 ELSE tm + diff

\* add: *v += diff, sub: *v -= diff, on a NumBits-wide integer
add(tm, diff) == (tm + diff) % Mod
sub(tm, diff) == (tm - diff) % Mod
\* A variant that keeps the value of a key that is present.
mapInsertIfAbsent(m, k, x) == IF k \in DOMAIN m THEN m ELSE MapPut(m, k, x)

\* mapInsert: (*m)[k] = v
mapInsert(m, k, x) == MapPut(m, k, x)
\* mapGet: out, ok = mm[k]
mapGet(m, k, r) == [r EXCEPT !.val = MapLookup(m, k).val, !.ok = MapLookup(m, k).ok]
\* containsKey: _, found = mm[k]
containsKey(m, k, r) == [r EXCEPT !.ok = MapLookup(m, k).ok]
\* mapDelete: delete(*m, k)
mapDelete(m, k) == MapDel(m, k)
\* mapLen: out = len(mm)
mapLen(m, r) == [r EXCEPT !.val = Cardinality(DOMAIN m)]
\* getKeyValue: value, ok = mm[k]; after the scope: if ok { return k, value, true }
getKeyValue(m, k, r) ==
    LET l == MapLookup(m, k)
    IN [r EXCEPT !.val = l.val, !.ok = l.ok, !.key = IF l.ok THEN k ELSE 0]
\* A variant of mapRemove that looks the key up and leaves it in the map.
mapRemoveKeep(m, k) == m

\* mapRemove: if out, ok = (*m)[k]; ok { delete(*m, k) }
mapRemoveLookup(m, k, r) == [r EXCEPT !.val = MapLookup(m, k).val, !.ok = MapLookup(m, k).ok]
mapRemoveDelete(m, k) == MapDel(m, k)

\* A variant of mapClear that leaves every entry in the map.
mapClearNothing(m) == m

\* mapClear: clear(*m), on the guarded map object itself
mapClear(m) == [y \in {} |-> m[y]]
\* mapIsEmpty: out = len(mm) == 0
mapIsEmpty(m, r) == [r EXCEPT !.ok = (Cardinality(DOMAIN m) = 0)]

\* ---- the loops of keys, values, mapEach and sliceEach
\* The enumerations of a set: the orders in which a range over a map may produce
\* its keys (the order is the runtime's choice, made when the loop starts).
RECURSIVE Perms(_)
Perms(S) ==
    IF S = {} THEN {<<>>}
    ELSE UNION {{<<x>> \o p : p \in Perms(S \ {x})} : x \in S}
RangeOps == {"Keys", "Values", "Each"}
\* What the range clause will go through: the keys of the map in some order, the
\* indices 0 .. len(v)-1 of the slice in this order.
Orders(vv, hp) ==
    IF Kind(work) = "map" THEN Perms(DOMAIN hp[vv])
    ELSE {[j \in 1..vv.len |-> j - 1]}
\* The for statement is entered with order ord ahead; out is empty (keys and values
\* make it before the scope, the callback of Each has not been called).
rangeStart(vv, hp, r, ord) == St(vv, hp, ord, [r EXCEPT !.val = <<>>], ord # <<>>)
\* What one iteration hands on: keys appends k, values appends v, mapEach calls
\* clb(k, v) and sliceEach clb(e) (the results record the arguments of the calls).
Produced(c, vv, hp, k) ==
    CASE c.op = "Keys" -> k
      [] c.op = "Values" -> hp[vv][k]
      [] c.op = "Each" -> IF Kind(work) = "map" THEN <<k, hp[vv][k]>> ELSE At(hp, vv, k)
\* One iteration of the loop; an entry that is no longer there is not produced.
rangeNext(c, vv, hp, tm, r) ==
    LET k == Head(tm)
        there == IF Kind(work) = "map" THEN k \in DOMAIN hp[vv] ELSE InRange(vv, k)
    IN St(vv, hp, Tail(tm),
          IF there THEN [r EXCEPT !.val = Append(@, Produced(c, vv, hp, k))] ELSE r,
          Tail(tm) # <<>>)

\* mapClone: out = make(map[K]V, len(mm)); for k, v := range mm { out[k] = v }
mapClone(hp, vv, r) == St(vv, Append(hp, hp[vv]), 0, [r EXCEPT !.val = NewRef(hp)], FALSE)

\* ---- the closures of the Slice operations
\* A run-time panic (index out of range, slice bounds out of range) inside a closure.
Fail(vv, hp, tm, r) == St(vv, hp, tm, [r EXCEPT !.panic = TRUE], FALSE)

\* sliceClear: *v = make([]E, 0)
sliceClear(vv, hp, tm, r) == St(Make(hp, 0).s, Make(hp, 0).heap, tm, r, FALSE)
\* sliceAppend: *v = append(*v, els...), the call of append and then the assignment
sliceAppend(vv, hp, r, els, sp) ==
    St(vv, GoAppend(hp, vv, els, sp).heap, GoAppend(hp, vv, els, sp).s, r, TRUE)
\* A variant that puts the element at the tail.
unshiftAtTail(vv, hp, r, el, sp) == sliceAppend(vv, hp, r, <<el>>, sp)

\* unshift: *v = append([]E{el}, *v...)
unshift(vv, hp, r, el, sp) ==
    LET lit == Header(NewRef(hp), 0, 1)
        a == GoAppend(Append(hp, <<el>>), lit, Elems(hp, vv), sp)
    IN St(vv, a.heap, a.s, r, TRUE)
\* insert, first statement: *v = append(*v, zero)
insertGrow(vv, hp, tm, r, sp) ==
    St(GoAppend(hp, vv, <<0>>, sp).s, GoAppend(hp, vv, <<0>>, sp).heap, tm, r, TRUE)
\* A variant that writes the element without moving the others.
insertOverwrite(vv, hp, tm, r, i, el) ==
    IF ~CanSliceFrom(vv, i + 1) \/ ~CanSliceFrom(vv, i) THEN Fail(vv, hp, tm, r)
    ELSE St(vv, [hp EXCEPT ![vv.a] = SetAt(@, vv, i, el)], tm, r, FALSE)

\* insert, the rest: copy((*v)[i+1:], (*v)[i:]); (*v)[i] = el
insertShift(vv, hp, tm, r, i, el) ==
    IF ~CanSliceFrom(vv, i + 1) \/ ~CanSliceFrom(vv, i) THEN Fail(vv, hp, tm, r)
    ELSE St(vv, [hp EXCEPT ![vv.a] = SetAt(CopyRight(@, vv, i), vv, i, el)], tm, r, FALSE)
\* A variant that returns the zero value when the slice is empty.
shiftOrZero(vv, hp, r) ==
    IF vv.len = 0 THEN St(vv, hp, vv, r, TRUE)
    ELSE St(vv, hp, Header(vv.a, vv.off + 1, vv.len - 1),
            [r EXCEPT !.val = At(hp, vv, 0)], TRUE)

\* shift: out, *v = (*v)[0], (*v)[1:], the right-hand sides and then the assignments
shift(vv, hp, r) ==
    IF ~InRange(vv, 0) \/ ~CanSliceFrom(vv, 1) THEN Fail(vv, hp, 0, r)
    ELSE St(vv, hp, Header(vv.a, vv.off + 1, vv.len - 1),
            [r EXCEPT !.val = At(hp, vv, 0)], TRUE)
\* A variant that takes the element before the last.
popBeforeLast(vv, hp, r) ==
    IF vv.len < 2 THEN Fail(vv, hp, 0, r)
    ELSE St(vv, hp, Header(vv.a, vv.off, vv.len - 1),
            [r EXCEPT !.val = At(hp, vv, vv.len - 2)], TRUE)

\* pop: out, *v = (*v)[len(*v)-1], (*v)[:len(*v)-1]
pop(vv, hp, r) ==
    IF ~InRange(vv, vv.len - 1) THEN Fail(vv, hp, 0, r)
    ELSE St(vv, hp, Header(vv.a, vv.off, vv.len - 1),
            [r EXCEPT !.val = At(hp, vv, vv.len - 1)], TRUE)
\* A variant that hands out the guarded slice itself.
sliceCloneAlias(vv, hp, r) == St(vv, hp, 0, [r EXCEPT !.val = vv], FALSE)

\* sliceClone: out = make([]E, len(v)); copy(out, v)
sliceClone(vv, hp, r) ==
    St(vv, Append(hp, Elems(hp, vv)), 0,
       [r EXCEPT !.val = Make(hp, vv.len).s], FALSE)
\* sliceLen: out = len(v)
sliceLen(vv, r) == [r EXCEPT !.val = vv.len]
\* sliceIsEmpty: out = len(v) == 0
sliceIsEmpty(vv, r) == [r EXCEPT !.ok = (vv.len = 0)]
\* A variant that reads the last element when the index is too large.
getClamped(vv, hp, r, i) ==
    IF vv.len = 0 \/ i < 0 THEN Fail(vv, hp, 0, r)
    ELSE St(vv, hp, 0,
            [r EXCEPT !.val = At(hp, vv, IF i < vv.len THEN i ELSE vv.len - 1)], FALSE)

\* get: out = (v)[i]
get(vv, hp, r, i) ==
    IF ~InRange(vv, i) THEN Fail(vv, hp, 0, r)
    ELSE St(vv, hp, 0, [r EXCEPT !.val = At(hp, vv, i)], FALSE)
\* sliceRemove: out = (*v)[i]; *v = (*v)[:i+copy((*v)[i:], (*v)[i+1:])]: the read
\* and the copy inside the backing array, and then the assignment of the shorter slice
sliceRemove(vv, hp, r, i) ==
    IF ~InRange(vv, i) THEN Fail(vv, hp, 0, r)
    ELSE St(vv, [hp EXCEPT ![vv.a] = CopyLeft(@, vv, i)],
            Header(vv.a, vv.off, i + Copied(vv, i)),
            [r EXCEPT !.val = At(hp, vv, i)], TRUE)
\* A variant that keeps every element.
filterAll(vv, hp, r, keep, sp) ==
    St(vv, Append(hp, Elems(hp, vv)), 0, [r EXCEPT !.val = Make(hp, vv.len).s], FALSE)

\* filter: out = make([]E, 0); for _, x := range v { if keep(x) { out = append(out, x) } }
\* (the appends taken together: the kept elements go into one new array)
filter(vv, hp, r, keep, sp) ==
    LET a == GoAppend(Make(hp, 0).heap, Make(hp, 0).s, Kept(Elems(hp, vv), keep), sp)
    IN St(vv, a.heap, 0, [r EXCEPT !.val = a.s], FALSE)

\* The first statement of the closure of a Slice operation.
SliceBody1(c, vv, hp, tm, r, sp) ==
    CASE c.op = "Clear" -> sliceClear(vv, hp, tm, r)
      [] c.op = "Append" -> sliceAppend(vv, hp, r, c.els, sp)
      [] c.op = "Unshift" -> unshift(vv, hp, r, c.x, sp)
      [] c.op = "Insert" -> insertGrow(vv, hp, tm, r, sp)
      [] c.op = "Shift" -> shift(vv, hp, r)
      [] c.op = "Pop" -> pop(vv, hp, r)
      [] c.op = "Clone" -> sliceClone(vv, hp, r)
      [] c.op = "Len" -> St(vv, hp, tm, sliceLen(vv, r), FALSE)
      [] c.op = "IsEmpty" -> St(vv, hp, tm, sliceIsEmpty(vv, r), FALSE)
      [] c.op = "Get" -> get(vv, hp, r, c.k)
      [] c.op = "Remove" -> sliceRemove(vv, hp, r, c.k)
      [] c.op = "Filter" -> filter(vv, hp, r, c.keep, sp)

\* The second statement: the assignment *v = ... of what the first computed.
SliceBody2(c, vv, hp, tm, r) ==
    CASE c.op = "Insert" -> insertShift(vv, hp, 0, r, c.k, c.x)
      [] OTHER -> St(tm, hp, 0, r, FALSE)

\* A variant in which the callback works on a copy that is stored only when the
\* callback returns nil.
assignUnlessFailed(c, vv) == IF c.e = NilErr THEN c.x ELSE vv

\* A caller's callback of body "write" is  func(p *T) error { x := *p; *p = c.x; return e }
\* (or it panics after the assignment).  withE hands it getPointer(m), the address
\* of m.v itself: the assignment is to the guarded field.
assign(c, vv) == c.x

\* A variant of load that hands out a copy of a map.
loadClosureClone(vv, hp, tm, r) ==
    IF Kind(work) = "map" THEN mapClone(hp, vv, r) ELSE St(vv, hp, tm, load(vv, r), FALSE)

\* The closure of load, func(v T) { out = v }: for a map T the assignment copies the
\* reference, and nothing is allocated.
loadClosure(vv, hp, tm, r) == St(vv, hp, tm, load(vv, r), FALSE)

\* A variant in which rWithE hands its callback the pointer and not the value.
paramAssignThrough(c, vv) == c.x

\* rWithE calls clb(*getPointer(m)): the callback's parameter is a copy of m.v.  The
\* guarded field after the callback "local",  func(x T) { x = c.x },  has assigned
\* to its parameter.
paramAssign(c, vv) == vv

\* The first statement of the closure of call c, run on field vv and heap hp; sp is
\* the spare capacity the runtime gives to an array allocated by append.  A caller's
\* callback "absent" is  func(m *map[K]V) { if _, ok := (*m)[k]; !ok { (*m)[k] = x } },
\* a callback "poke" of RWith on a map is  func(mm map[K]V) { mm[k] = x }: the copy
\* of a map value refers to the same map.
Body1(c, vv, hp, tm, r, sp) ==
    IF Kind(work) = "slice" /\ c.op # "Load" THEN SliceBody1(c, vv, hp, tm, r, sp)
    ELSE IF c.body = "absent"
    THEN St(vv, hp, tm, containsKey(hp[vv], c.k, r), ~containsKey(hp[vv], c.k, r).ok)
    ELSE IF c.body = "poke"
    THEN St(vv, [hp EXCEPT ![vv] = MapPut(@, c.k, c.x)], tm, r, FALSE)
    ELSE IF c.body = "local"
    THEN St(paramAssign(c, vv), hp, c.x, r, FALSE)
    ELSE
    CASE c.op = "Clone" -> mapClone(hp, vv, r)
      [] c.op = "Load" -> loadClosure(vv, hp, tm, r)
      [] c.op = "Store" -> St(store(c.x), hp, tm, r, FALSE)
      [] c.op = "Swap" -> St(vv, hp, tm, swapOld(vv, r), TRUE)
      [] c.op \in {"Add", "Sub"} -> St(vv, hp, vv, r, TRUE)
      [] c.op \in {"With", "WithE", "RWith", "RWithE"} ->
            St(vv, hp, vv, r, c.body = "write")
      [] c.op = "Insert" ->
            St(vv, [hp EXCEPT ![vv] = mapInsert(@, c.k, c.x)], tm, r, FALSE)
      [] c.op = "Get" -> St(vv, hp, tm, mapGet(hp[vv], c.k, r), FALSE)
      [] c.op = "ContainsKey" -> St(vv, hp, tm, containsKey(hp[vv], c.k, r), FALSE)
      [] c.op = "GetKeyValue" -> St(vv, hp, tm, getKeyValue(hp[vv], c.k, r), FALSE)
      [] c.op = "Len" -> St(vv, hp, tm, mapLen(hp[vv], r), FALSE)
      [] c.op = "IsEmpty" -> St(vv, hp, tm, mapIsEmpty(hp[vv], r), FALSE)
      [] c.op = "Clear" -> St(vv, [hp EXCEPT ![vv] = mapClear(@)], tm, r, FALSE)
      [] c.op = "Delete" ->
            St(vv, [hp EXCEPT ![vv] = mapDelete(@, c.k)], tm, r, FALSE)
      [] c.op = "Remove" ->
            St(vv, hp, tm, mapRemoveLookup(hp[vv], c.k, r),
               mapRemoveLookup(hp[vv], c.k, r).ok)

\* The second statement, where there is one.
Body2(c, vv, hp, tm, r) ==
    IF c.op \in RangeOps THEN rangeNext(c, vv, hp, tm, r)
    ELSE IF Kind(work) = "slice" THEN SliceBody2(c, vv, hp, tm, r)
    ELSE IF c.body = "absent"
    THEN St(vv, [hp EXCEPT ![vv] = mapInsert(@, c.k, c.x)], tm, r, FALSE)
    ELSE
    CASE c.op = "Swap" -> St(swapNew(c.x), hp, tm, r, FALSE)
      [] c.op = "Add" -> St(add(tm, c.x), hp, tm, r, FALSE)
      [] c.op = "Sub" -> St(sub(tm, c.x), hp, tm, r, FALSE)
      [] c.op \in {"With", "WithE"} -> St(assign(c, vv), hp, tm, r, FALSE)
      [] c.op = "Remove" ->
            St(vv, [hp EXCEPT ![vv] = mapRemoveDelete(@, c.k)], tm, r, FALSE)

\* The closure of call c run to its end, one statement after the other.
RECURSIVE RunRest(_, _)
RunRest(c, s) == IF s.more THEN RunRest(c, Body2(c, s.v, s.heap, s.tmp, s.ret)) ELSE s
\* The operation c without its lock, applied to a value of content x that nothing
\* else uses (a map or a slice of its own, with no room behind the elements).
Unsynchronized(c, x) ==
    LET k == Kind(work)
        vv == CASE k = "map" -> 1
                [] k = "slice" -> Header(1, 0, Len(x))
                [] OTHER -> x
        hp == IF k \in {"map", "slice"} THEN <<x>> ELSE <<>>
    IN RunRest(c, Body1(c, vv, hp, 0, NoRet, 0))

\* A variant that swallows the callback's error.
withESwallow(e) == NilErr

\* withE / rWithE: return clb(...).  with / rWith: _ = withE(...), the closure returns nil.
withE(e) == e
with(e) == NilErr

\* What the scope hands to its caller once the callback has ended with outcome e.
Outcome(c, r) ==
    IF c.e = "panic" THEN [r EXCEPT !.panic = TRUE]
    ELSE [r EXCEPT !.err = IF c.op \in {"WithE", "RWithE"} THEN withE(c.e) ELSE with(c.e)]

\* A variant without defer: m.Lock(); err := clb(...); m.Unlock(); return err.
AfterCallbackNoDefer(panicked) == IF panicked THEN "idle" ELSE "unlock"

\* defer m.Unlock() / defer m.RUnlock(): the unlock runs when the callback returns
\* and when it panics.
AfterCallback(panicked) == "unlock"

\* ------------------------------------------------------------- the calls
\* The argument lists of Append: one or two elements.
Appended == {<<x>> : x \in Vals} \cup {<<x, y>> : x, y \in Vals}

\* The operations of a Slice that change it, those that copy it and those that look
\* something up; the operations of a Map that change it.
SliceMutators ==
    {[NoCall EXCEPT !.op = o] : o \in {"Clear", "Shift", "Pop"}}
    \cup {[NoCall EXCEPT !.op = "Remove", !.k = i] : i \in Idx}
    \cup {[NoCall EXCEPT !.op = "Insert", !.k = i, !.x = x] : i \in Idx, x \in Vals}
    \cup {[NoCall EXCEPT !.op = "Unshift", !.x = x] : x \in Vals}
    \cup {[NoCall EXCEPT !.op = "Append", !.els = els] : els \in Appended}
SliceCopies ==
    {[NoCall EXCEPT !.op = "Clone"]}
    \cup {[NoCall EXCEPT !.op = "Filter", !.keep = keep] : keep \in SUBSET Vals}
SliceLookups == {[NoCall EXCEPT !.op = "Get", !.k = i] : i \in Idx}
Lookups == {[NoCall EXCEPT !.op = o] : o \in {"Load", "Len"}}
MapMutators ==
    {[NoCall EXCEPT !.op = o, !.k = k] : o \in {"Remove", "Delete"}, k \in Keys}
    \cup {[NoCall EXCEPT !.op = "Insert", !.k = k, !.x = x] : k \in Keys, x \in Vals}

\* The calls of TestSlice, made on the slice [1, 2, 3].
Script ==
    << [NoCall EXCEPT !.op = "Shift"],
       [NoCall EXCEPT !.op = "Unshift", !.x = 4],
       [NoCall EXCEPT !.op = "Pop"],
       [NoCall EXCEPT !.op = "Remove", !.k = 1],
       [NoCall EXCEPT !.op = "Remove", !.k = 1],
       [NoCall EXCEPT !.op = "Append", !.els = <<5, 6, 7>>],
       [NoCall EXCEPT !.op = "Get", !.k = 2],
       [NoCall EXCEPT !.op = "Insert", !.k = 2, !.x = 8] >>

\* One call of a caller's own sequence b: the method or statement o, writing x.
Item(b, o, x) == [NoCall EXCEPT !.op = o, !.body = b, !.x = x]

\* With and RWith on instance i with a callback that only reads (and returns or
\* panics), and with a callback that calls With or RWith on instance j.
Plain(i) ==
    {[NoCall EXCEPT !.op = o, !.inst = i, !.body = "read", !.e = e] :
        o \in {"With", "RWith"}, e \in {NilErr, "panic"}}
Nest(i, j) ==
    {[NoCall EXCEPT !.op = o, !.inst = i, !.body = "call", !.inner = q, !.on = j] :
        o \in {"With", "RWith"}, q \in {"With", "RWith"}}

\* A variant in which every callback returns.
neverReturnsNever(c) == FALSE

\* The callback of call c never returns (for {} or a receive that nothing answers):
\* clb(...) in withE / rWithE does not come back and the deferred release never runs.
neverReturns(c) == c.body = "stuck"
\* The callback that never returns has begun on the goroutine that called it.
Began(t) == call[t].body = "stuck" /\ pc[t] \notin {"lock", "wait"}

\* The calls a goroutine may make under workload w when n calls have been made.
Calls(w, n) ==
    CASE w = "value" ->
            {[NoCall EXCEPT !.op = "Load"]}
            \cup {[NoCall EXCEPT !.op = o, !.x = Label(n)] : o \in {"Store", "Swap"}}
      [] w = "zero" ->
            {[NoCall EXCEPT !.op = "Load"]}
            \cup {[NoCall EXCEPT !.op = o, !.x = Label(n)] : o \in {"Store", "Swap"}}
      [] w = "scope" ->
            {[NoCall EXCEPT !.op = "WithE", !.x = Label(n), !.body = "write", !.e = e] :
                e \in {"e1", NilErr, "panic"}}
            \cup {[NoCall EXCEPT !.op = "With", !.x = Label(n), !.body = "write", !.e = e] :
                e \in {NilErr, "panic"}}
            \cup {[NoCall EXCEPT !.op = "RWithE", !.body = "read", !.e = e] :
                e \in {"e2", NilErr, "panic"}}
            \cup {[NoCall EXCEPT !.op = "RWith", !.body = "read", !.e = e] :
                e \in {NilErr, "panic"}}
      [] w = "number" ->
            {[NoCall EXCEPT !.op = "Load"]}
            \cup {[NoCall EXCEPT !.op = o, !.x = d] : o \in {"Add", "Sub"}, d \in Deltas}
      [] w \in {"mapclear", "sliceclear"} ->
            {[NoCall EXCEPT !.op = o] : o \in {"Clear", "Len", "IsEmpty", "Load"}}
      [] w = "snapshot" ->
            {[NoCall EXCEPT !.op = o] : o \in {"Keys", "Values", "Clear"}}
            \cup {[NoCall EXCEPT !.op = "Remove", !.k = MaxKey],
                  [NoCall EXCEPT !.op = "Insert", !.k = 0, !.x = 0]}
      [] w = "each" ->
            {[NoCall EXCEPT !.op = "Each"],
             [NoCall EXCEPT !.op = "Remove", !.k = MaxKey],
             [NoCall EXCEPT !.op = "Insert", !.k = 0, !.x = 0]}
      [] w = "sliceeach" ->
            {[NoCall EXCEPT !.op = "Each"],
             [NoCall EXCEPT !.op = "Remove", !.k = 0],
             [NoCall EXCEPT !.op = "Append", !.els = <<0>>]}
      [] w = "mapload" ->
            IF n = 0 THEN {[NoCall EXCEPT !.op = "Load"]}
            ELSE IF n = 1
            THEN {[NoCall EXCEPT !.op = o, !.k = k, !.x = x] :
                     o \in {"Insert", "Touch"}, k \in Keys, x \in Vals}
            ELSE {[NoCall EXCEPT !.op = "Get", !.k = k] : k \in Keys}
      [] w = "paired" ->
            {[NoCall EXCEPT !.op = "Load"]}
            \cup {[NoCall EXCEPT !.op = o, !.x = Label(n)] : o \in {"Store", "Swap"}}
            \cup {[NoCall EXCEPT !.op = "WithE", !.x = Label(n), !.body = "write", !.e = e] :
                     e \in {"e1", "panic"}}
            \cup {[NoCall EXCEPT !.op = "RWith", !.body = "read", !.e = e] :
                     e \in {NilErr, "panic"}}
      [] w = "view" ->
            {[NoCall EXCEPT !.op = "Load"]}
            \cup {[NoCall EXCEPT !.op = o, !.body = "local", !.x = Label(n)] :
                     o \in {"RWith", "RWithE"}}
      [] w = "mapview" ->
            {[NoCall EXCEPT !.op = "Get", !.k = k] : k \in Keys}
            \cup {[NoCall EXCEPT !.op = "RWith", !.body = "poke", !.k = k, !.x = x] :
                     k \in Keys, x \in Vals}
      [] w = "arith" ->
            {[NoCall EXCEPT !.op = "Load"]}
            \cup {[NoCall EXCEPT !.op = o, !.x = d] : o \in {"Add", "Sub"}, d \in 0..(Mod - 1)}
      [] w = "map" ->
            {[NoCall EXCEPT !.op = o] : o \in {"Load", "Len"}}
            \cup {[NoCall EXCEPT !.op = o, !.k = k] :
                o \in {"Get", "ContainsKey", "GetKeyValue", "Remove", "Delete"}, k \in Keys}
            \cup {[NoCall EXCEPT !.op = "Insert", !.k = k, !.x = x] : k \in Keys, x \in Vals}
      [] w = "race" ->
            {[NoCall EXCEPT !.op = "Remove", !.k = k] : k \in Keys}
            \cup {[NoCall EXCEPT !.op = "Insert", !.k = k, !.x = 0] : k \in Keys}
      [] w = "slice" ->
            IF n = 0 THEN SliceMutators \cup SliceLookups ELSE Lookups
      [] w = "copy" ->
            IF n = 0 THEN SliceCopies
            ELSE IF n = 1
            THEN SliceMutators
                 \cup {[NoCall EXCEPT !.op = "Touch", !.k = i, !.x = x] : i \in Idx, x \in Vals}
            ELSE {}
      [] w = "mapcopy" ->
            IF n = 0 THEN {[NoCall EXCEPT !.op = "Clone"]}
            ELSE IF n = 1
            THEN MapMutators
                 \cup {[NoCall EXCEPT !.op = "Touch", !.k = k, !.x = x] : k \in Keys, x \in Vals}
            ELSE {}
      [] w = "example" -> {Script[n + 1]}
      [] w = "stuck" ->
            \* the first call's callback never returns; the others are invoked once
            \* it has begun
            IF n = 0
            THEN {[NoCall EXCEPT !.op = o, !.body = "stuck"] : o \in {"With", "RWith"}}
            ELSE IF \E s \in DOMAIN pc : Began(s)
            THEN {[NoCall EXCEPT !.op = "Load"]}
                 \cup {[NoCall EXCEPT !.op = "Store", !.x = Label(n)]}
                 \cup {[NoCall EXCEPT !.op = "With", !.x = Label(n), !.body = "write"]}
                 \cup {[NoCall EXCEPT !.op = "RWith", !.body = "read"]}
            ELSE {}
      [] w = "pops" -> {[NoCall EXCEPT !.op = "Pop"]}
      [] w = "shifts" -> {[NoCall EXCEPT !.op = "Shift"]}
      [] w = "shrink" ->
            {[NoCall EXCEPT !.op = "Remove", !.k = i] : i \in 0..MaxLen}
            \cup {[NoCall EXCEPT !.op = "Clone"]}
      [] w = "readers" ->
            {[NoCall EXCEPT !.op = o, !.body = "read"] : o \in {"RWith", "RWithE"}}
            \cup {[NoCall EXCEPT !.op = "With", !.x = Label(n), !.body = "write"]}
      [] w = "reenter" -> Plain(1) \cup Nest(1, 1)
      [] w = "cross" -> Plain(1) \cup Plain(2) \cup Nest(1, 2) \cup Nest(2, 1)
      [] w = "ordered" -> Plain(1) \cup Plain(2) \cup Nest(1, 2)
      [] w = "once" ->
            {[NoCall EXCEPT !.op = "With", !.body = "absent", !.k = 0,
                            !.x = MaxVal + Label(n)]}
      [] w = "manual" ->
            {Item("bracket", "Lock", 0), Item("rbracket", "RLock", 0),
             Item("raw", "GetPointer", 0)}
            \cup {[NoCall EXCEPT !.op = "Add", !.x = 1],
                  [NoCall EXCEPT !.op = "RWith", !.body = "read"],
                  [NoCall EXCEPT !.op = "Load"]}

\* A caller's own use of the exposed lock and pointer is a sequence of calls:
\*   "bracket":  m.Lock(); p := m.GetPointer(); x := *p; *p = x + 1; m.Unlock()
\*   "rbracket": m.RLock(); p := m.GetPointer(); x := *p; m.RUnlock()
\*   "raw":      p := m.GetPointer(); x := *p; *p = x + 1
\* The goroutine is inside such a sequence, and the call that follows.
Brackets == {"bracket", "rbracket", "raw"}
ItemEnd(c) == c.op \in UnlockMethods \/ (c.body = "raw" /\ c.op = "PtrWrite")
Continues(t) == work = "manual" /\ call[t].body \in Brackets /\ ~ItemEnd(call[t])
NextInItem(c, x) ==
    CASE c.op \in LockMethods -> Item(c.body, "GetPointer", 0)
      [] c.op = "GetPointer" -> Item(c.body, "PtrRead", 0)
      [] c.op = "PtrRead" ->
            IF c.body = "rbracket" THEN Item(c.body, "RUnlock", 0)
            ELSE Item(c.body, "PtrWrite", add(x, 1))
      [] c.op = "PtrWrite" -> Item(c.body, "Unlock", 0)
NextCalls(t) ==
    IF Continues(t) THEN {NextInItem(call[t], tmp[t])} ELSE Calls(work, ncalls)

\* ------------------------------------------------------------ the steps
\* The calls of TestRWMap_Load: Load, a write, Get.
LoadSteps == 3
\* The number of calls made in a run.
Budget ==
    CASE work = "example" -> Len(Script)
      [] work \in {"reenter", "cross", "ordered", "snapshot", "each", "sliceeach",
                   "paired", "pops", "shifts"} -> nthr
      [] work \in {"mapclear", "sliceclear"} /\ nthr > 1 -> nthr
      [] work = "mapload" -> LoadSteps
      [] work # "example" /\ nthr = 1 -> SeqCalls
      [] OTHER -> MaxCalls

\* The caller writes one element or entry of the copy its last call returned:
\* c[i] = x, in the caller's own code and without the lock.
CanTouch(t, c) ==
    /\ call[t].op \in {"Clone", "Filter"} \/ (Kind(work) = "map" /\ call[t].op = "Load")
    /\ Kind(work) = "slice" => InRange(ret[t].val, c.k)
Touch(hp, x, c) ==
    IF Kind(work) = "map" THEN [hp EXCEPT ![x] = MapPut(@, c.k, c.x)]
    ELSE [hp EXCEPT ![x.a] = SetAt(@, x, c.k, c.x)]

\* A variant of GetPointer that hands out a pointer to a copy of the value.
GetPointerCopy == "copy"

\* GetPointer: return &m.v
GetPointer == "v"
\* x := *p and *p = x through the pointer p the caller holds.
PtrRead(p, vv) == vv
PtrWrite(p, vv, x) == IF p = "v" THEN x ELSE vv

\* The statements of the caller that run without a call into the package.
CallerSteps == {"Touch", "GetPointer", "PtrRead", "PtrWrite"}
\* A variant in which Lock and RLock return without taking the lock.
AfterCallNoLock(c) ==
    IF c.op \in CallerSteps \cup LockMethods THEN "idle"
    ELSE IF c.op \in UnlockMethods THEN "unlock" ELSE "lock"

\* Where a call stands once it is made: GetPointer and the caller's own statements
\* are done, Unlock and RUnlock go straight to the mutex, all others ask for the lock.
AfterCall(c) ==
    IF c.op \in CallerSteps THEN "idle"
    ELSE IF c.op \in UnlockMethods THEN "unlock" ELSE "lock"

\* Goroutine t makes call c (or runs a statement of its own on what an earlier call
\* returned); a method called through a nil interface panics in the caller.
\* Goroutines are interchangeable: they are numbered in the order of their first
\* calls.
CallOf(t, c) ==
    /\ t <= nthr
    /\ pc[t] = "idle"
    /\ \A u \in 1..(t - 1) : call[u].op # "none"
    /\ Continues(t) \/ ncalls < Budget
    /\ c \in NextCalls(t)
    /\ c.op = "Touch" => CanTouch(t, c)
    /\ call' = [call EXCEPT ![t] = c]
    /\ pc' = [pc EXCEPT ![t] = IF NilReceiver(work, variant) THEN "idle" ELSE AfterCall(c)]
    /\ heap' = IF c.op = "Touch" THEN Touch(heap, ret[t].val, c) ELSE heap
    /\ v' = IF c.op = "PtrWrite" THEN PtrWrite(ret[t].ptr, v, c.x) ELSE v
    /\ ncalls' = IF Continues(t) THEN ncalls ELSE ncalls + 1
    /\ ret' = [ret EXCEPT ![t] =
                 IF NilReceiver(work, variant) THEN [NoRet EXCEPT !.panic = TRUE]
                 ELSE IF c.op = "GetPointer" THEN [NoRet EXCEPT !.ptr = GetPointer]
                 ELSE IF c.op \in {"PtrRead", "PtrWrite"} \cup UnlockMethods THEN @
                 ELSE NoRet]
    /\ tmp' = [tmp EXCEPT ![t] =
                 IF c.op = "PtrRead" THEN PtrRead(ret[t].ptr, v)
                 ELSE IF c.op \in {"GetPointer", "PtrWrite"} \cup UnlockMethods THEN @
                 ELSE 0]
    /\ pre' = [pre EXCEPT ![t] = 0]
    /\ runs' = [runs EXCEPT ![t] = 0]
    /\ sum' = IF c.op = "PtrWrite" /\ c.body = "raw" THEN (sum + 1) % Mod ELSE sum
    /\ last' = IF nthr = 1
               THEN [last EXCEPT ![t] = [call |-> call[t], ret |-> ret[t], pre |-> pre[t]]]
               ELSE last
    /\ given' = IF c.op = "PtrWrite" /\ c.body = "raw" THEN Append(given, c.x) ELSE given
    /\ UNCHANGED <<work, variant, nthr, mu, mu2, stat, v0, committed>>

Call(t) ==
    /\ pc[t] = "idle"
    /\ Continues(t) \/ ncalls < Budget
    /\ \E c \in NextCalls(t) : CallOf(t, c)

\* The lock of instance i.
LockOf(i) == IF i = 1 THEN mu ELSE mu2
\* The call a callback of body "call" makes, and the enclosing call when that call
\* has returned into the callback.
Enter(c) ==
    [NoCall EXCEPT !.op = c.inner, !.inst = c.on, !.body = "read",
                   !.outer = c.op, !.oinst = c.inst]
Resume(c) ==
    [NoCall EXCEPT !.op = c.outer, !.inst = c.oinst, !.body = "called",
                   !.inner = c.op, !.on = c.inst]
\* The goroutine's enclosing call holds the read lock of the same instance: the
\* RUnlock of the inner call takes the reader count from two to one.
StillReads(t) ==
    /\ call[t].outer # "none" /\ call[t].oinst = call[t].inst
    /\ Mode(variant, call[t].outer) = "S"

\* m.Lock() / m.RLock(): at the head of withE / rWithE, where the callback follows,
\* or called by the caller itself, to whom it returns.
AcqShared(t) == Mode(variant, call[t].op) = "S"
AcqAnnounces(t) == ~AcqShared(t) /\ Backend(variant) = "RWMutex" /\ pc[t] = "lock"
Acquired(t) ==
    IF AcqShared(t) THEN RLock(LockOf(call[t].inst), t)
    ELSE IF AcqAnnounces(t) THEN Announce(LockOf(call[t].inst), t)
    ELSE Lock(LockOf(call[t].inst), t)
Acquire(t) ==
    /\ pc[t] \in {"lock", "wait"}
    /\ IF AcqShared(t) THEN CanRLock(LockOf(call[t].inst))
       ELSE IF AcqAnnounces(t) THEN CanAnnounce(LockOf(call[t].inst))
       ELSE CanLock(LockOf(call[t].inst), t, Backend(variant))
    /\ mu' = IF call[t].inst = 1 THEN Acquired(t) ELSE mu
    /\ mu2' = IF call[t].inst = 2 THEN Acquired(t) ELSE mu2
    /\ pc' = [pc EXCEPT ![t] =
                IF AcqAnnounces(t) THEN "wait"
                ELSE IF call[t].op \in LockMethods THEN "idle" ELSE "cb"]
    /\ pre' = [pre EXCEPT ![t] = IF AcqAnnounces(t) THEN @ ELSE Content]
    /\ UNCHANGED <<work, variant, nthr, v, heap, call, tmp, ret, ncalls, runs, sum,
                   given, stat, v0, last, committed>>

\* The closure runs: clb(getPointer(m)) / clb(*getPointer(m)).
Finish(t, s) ==
    /\ v' = s.v
    /\ heap' = s.heap
    /\ tmp' = [tmp EXCEPT ![t] = s.tmp]
    /\ ret' = [ret EXCEPT ![t] = IF s.more THEN s.ret ELSE Outcome(call[t], s.ret)]
    /\ pc' = [pc EXCEPT ![t] =
                IF s.more THEN "cbw"
                ELSE AfterCallback(call[t].e = "panic" \/ s.ret.panic)]

\* The room the runtime may leave behind the elements when append allocates.
Spare(c) ==
    IF Kind(work) = "slice" /\ c.op \in {"Append", "Unshift", "Insert", "Filter"}
    THEN 0..MaxSpare ELSE {0}

\* The callback's first statement, which may be a call into the package: that call
\* then asks for its lock while the enclosing call keeps its own.
Callback(t) ==
    /\ pc[t] = "cb"
    /\ ~neverReturns(call[t])
    /\ IF call[t].body = "call"
       THEN /\ call' = [call EXCEPT ![t] = Enter(call[t])]
            /\ pc' = [pc EXCEPT ![t] = "lock"]
            /\ UNCHANGED <<v, heap, tmp, ret>>
       ELSE IF call[t].op \in RangeOps
       THEN /\ \E ord \in Orders(v, heap) : Finish(t, rangeStart(v, heap, ret[t], ord))
            /\ call' = call
       ELSE /\ \E sp \in Spare(call[t]) :
                  Finish(t, Body1(call[t], v, heap, tmp[t], ret[t], sp))
            /\ call' = call
    /\ runs' = [runs EXCEPT ![t] = @ + 1]
    /\ stat' = CASE work = "race" /\ call[t].op = "Insert" ->
                        [stat EXCEPT ![call[t].k].ins = @ + 1]
                 [] work = "race" /\ call[t].op = "Remove" ->
                        [stat EXCEPT ![call[t].k].rem = @ + 1,
                                     ![call[t].k].won = IF ret'[t].ok THEN @ + 1 ELSE @]
                 [] OTHER -> stat
    /\ UNCHANGED <<work, variant, nthr, mu, mu2, ncalls, pre, sum, given, v0, last,
                   committed>>

CallbackWrite(t) ==
    /\ pc[t] = "cbw"
    /\ Finish(t, Body2(call[t], v, heap, tmp[t], ret[t]))
    /\ UNCHANGED <<work, variant, nthr, mu, mu2, call, ncalls, pre, runs, sum,
                   given, stat, v0, last, committed>>

\* The deferred m.Unlock() / m.RUnlock(), then the return to the caller (which is
\* the enclosing callback when the call was made by one: that callback then ends);
\* or the caller's own m.Unlock() / m.RUnlock() at the end of its bracket.
RelShared(t) == UnlockMode(variant, call[t].op) = "S"
Released(t) ==
    IF ~RelShared(t) THEN Unlock(LockOf(call[t].inst), t)
    ELSE IF StillReads(t) THEN LockOf(call[t].inst)
    ELSE RUnlock(LockOf(call[t].inst), t)
Release(t) ==
    /\ pc[t] = "unlock"
    /\ mu' = IF call[t].inst = 1 THEN Released(t) ELSE mu
    /\ mu2' = IF call[t].inst = 2 THEN Released(t) ELSE mu2
    /\ pc' = [pc EXCEPT ![t] = IF call[t].outer # "none" THEN "unlock" ELSE "idle"]
    /\ call' = IF call[t].outer # "none" THEN [call EXCEPT ![t] = Resume(call[t])]
               ELSE call
    /\ tmp' = [tmp EXCEPT ![t] = 0]
    /\ sum' = CASE call[t].op = "Add" -> (sum + call[t].x) % Mod
                [] call[t].op = "Sub" -> (sum - call[t].x) % Mod
                [] call[t].op = "Unlock" -> (sum + 1) % Mod
                [] OTHER -> sum
    /\ given' = IF call[t].op = "Swap" \/ (work \in {"pops", "shifts"} /\ ~ret[t].panic)
                THEN Append(given, ret[t].val) ELSE given
    /\ committed' = IF work = "shrink" THEN committed \cup {Content} ELSE committed
    /\ UNCHANGED <<work, variant, nthr, v, heap, ret, ncalls, pre, runs,
                   stat, v0, last>>

Next == \E t \in DOMAIN pc : Call(t) \/ Acquire(t) \/ Callback(t) \/ CallbackWrite(t) \/ Release(t)

\* ------------------------------------------------------ the initial states
EmptyMap == [y \in {} |-> 0]
AllMaps == UNION {[D -> Vals] : D \in SUBSET Keys}
\* The maps a run of workload w starts from; the racing Removes and Inserts start
\* from entries of value MaxVal and insert the value 0.
InitMaps(w) == IF w \in {"race", "once", "snapshot", "each", "mapclear"} THEN UNION {[D -> {MaxVal}] : D \in SUBSET Keys} ELSE AllMaps

\* The sequences a slice starts from (TestSlice starts from [1, 2, 3]); the slice a
\* constructor is given may begin anywhere in its array and may have room behind it.
AllSlices == UNION {[1..n -> Vals] : n \in 0..MaxLen}
\* The concurrent Removes start from [1, ..., MaxLen]: each element names its place.
InitSlices(w) ==
    CASE w = "example" -> {<<1, 2, 3>>}
      [] w = "shrink" -> {[j \in 1..MaxLen |-> j]}
      [] w = "sliceclear" -> {[j \in 1..n |-> j] : n \in 0..MaxLen}
      [] w \in {"pops", "shifts"} -> {[j \in 1..n |-> j] : n \in 0..(MaxThreads + 1)}
      [] OTHER -> AllSlices
\* The room before the elements and the room behind them.
InitOff(w) == IF w = "slice" THEN 0..MaxSpare ELSE {0}
InitRoom(w) == IF w \in {"shrink", "sliceclear"} THEN {0} ELSE 0..MaxSpare

\* The numbers a run starts from: the smallest and the largest of the type (the
\* callers with their own brackets start from the largest: the next increment wraps).
InitNumbers(w) ==
    CASE w = "manual" -> {Mod - 1}
      [] w = "arith" -> 0..(Mod - 1)
      [] OTHER -> {0, Mod - 1}

\* The goroutines of a run of N callers.
Goroutines(N) == IF N > MaxThreads THEN 1..N ELSE Threads

InitOf(W, N) ==
    /\ work \in W
    /\ variant \in Variants
    /\ nthr = N
    /\ mu = Unlocked
    /\ mu2 = Unlocked
    /\ IF Kind(work) = "map" THEN v = 1 /\ heap \in {<<m>> : m \in InitMaps(work)}
       ELSE IF Kind(work) = "slice"
       THEN \E q \in InitSlices(work), off \in InitOff(work), sp \in InitRoom(work) :
               v = Header(1, off, Len(q)) /\ heap = <<Zeros(off) \o q \o Zeros(sp)>>
       ELSE IF Kind(work) = "number" THEN v \in InitNumbers(work) /\ heap = <<>>
       ELSE v = 0 /\ heap = <<>>
    /\ pc = [t \in Goroutines(N) |-> "idle"]
    /\ call = [t \in Goroutines(N) |-> NoCall]
    /\ tmp = [t \in Goroutines(N) |-> 0]
    /\ ret = [t \in Goroutines(N) |-> NoRet]
    /\ ncalls = 0
    /\ pre = [t \in Goroutines(N) |-> 0]
    /\ runs = [t \in Goroutines(N) |-> 0]
    /\ sum = IF Kind(work) = "number" THEN v ELSE 0
    /\ given = <<>>
    /\ stat = [k \in Keys |-> NoStat]
    /\ v0 = IF work \in {"race", "number", "manual", "once", "mapclear", "sliceclear",
                           "pops", "shifts"}
            THEN Content ELSE 0
    /\ last = [t \in Goroutines(N) |-> NoLast]
    /\ committed = IF work = "shrink" THEN {Content} ELSE {}

Workloads == {"value", "scope", "number", "map", "race"}

Init == InitOf(Workloads, MaxThreads)
Spec == Init /\ [][Next]_vars

InitValue == InitOf({"value"}, MaxThreads)
SpecValue == InitValue /\ [][Next]_vars
InitScope == InitOf({"scope"}, MaxThreads)
SpecScope == InitScope /\ [][Next]_vars
InitNumber == InitOf({"number"}, MaxThreads)
SpecNumber == InitNumber /\ [][Next]_vars
InitMap == InitOf({"map"}, MaxThreads)
SpecMap == InitMap /\ [][Next]_vars
InitRace == InitOf({"race"}, MaxThreads)
SpecRace == InitRace /\ [][Next]_vars

\* Removes and Clones of concurrent goroutines, and the operations of a lone one.
InitShrink == InitOf({"shrink"}, MaxThreads) \/ InitOf({"slice"}, 1)
SpecShrink == InitShrink /\ [][Next]_vars
InitReaders == InitOf({"readers"}, MaxThreads + 1)
SpecReaders == InitReaders /\ [][Next]_vars

\* A lone goroutine: the operations one after the other.
InitSeq == InitOf({"value", "number", "map"}, 1)
SpecSeq == InitSeq /\ [][Next]_vars
InitSlice == InitOf({"slice", "example"}, 1)
SpecSlice == InitSlice /\ [][Next]_vars
InitCopy == InitOf({"mapcopy", "copy"}, 1)
SpecCopy == InitCopy /\ [][Next]_vars

\* Goroutines that each insert their own value under a key if the key is absent.
InitOnce == InitOf({"once"}, MaxThreads)
SpecOnce == InitOnce /\ [][Next]_vars

\* Callbacks that call back into their own instance.
InitReenter == InitOf({"reenter"}, MaxThreads)
SpecReenter == InitReenter /\ [][Next]_vars

\* Fair scheduling: a goroutine that can take a step of an operation it has begun
\* (get the lock that is free for it, run its callback, unlock) eventually takes
\* it.  Nothing obliges a caller to make another call.
Fair ==
    \A t \in Threads :
        /\ WF_vars(Acquire(t)) /\ WF_vars(Callback(t))
        /\ WF_vars(CallbackWrite(t)) /\ WF_vars(Release(t))
\* Calls on two instances whose callbacks return, panic or call into the other
\* instance.
InitFair == InitOf({"ordered", "cross"}, MaxThreads)
SpecFair == InitFair /\ [][Next]_vars /\ Fair

\* Keys, Values and Each on a Map next to Inserts, Removes and Clears of other
\* goroutines.
InitSnapshot == InitOf({"snapshot"}, MaxThreads)
SpecSnapshot == InitSnapshot /\ [][Next]_vars

\* Clear, Len, IsEmpty and Load on a Map and on a Slice, by concurrent goroutines
\* and by a lone one.
InitClear ==
    InitOf({"mapclear", "sliceclear"}, MaxThreads) \/ InitOf({"mapclear", "sliceclear"}, 1)
SpecClear == InitClear /\ [][Next]_vars

\* Load, Store, Swap and scoped calls whose callbacks return, fail or panic, one
\* call for each goroutine.
InitPaired == InitOf({"paired"}, MaxThreads)
SpecPaired == InitPaired /\ [][Next]_vars

\* Goroutines that each call Pop, or each call Shift, on a Slice that has fewer
\* elements than there are goroutines, as many, or one more.
InitTake == InitOf({"pops", "shifts"}, MaxThreads)
SpecTake == InitTake /\ [][Next]_vars

\* A callback that never returns, and the operations other goroutines invoke on the
\* instance once it has begun.
InitStuck == InitOf({"stuck"}, MaxThreads + 1)
SpecStuck == InitStuck /\ [][Next]_vars

\* Each on a Map and on a Slice next to mutating operations of other goroutines.
InitEach == InitOf({"each", "sliceeach"}, MaxThreads)
SpecEach == InitEach /\ [][Next]_vars

\* A lone goroutine loads a map, writes through the container or into the loaded
\* map, and gets a key.
InitLoad == InitOf({"mapload"}, 1)
SpecLoad == InitLoad /\ [][Next]_vars

\* Read scopes whose callbacks assign to their parameter (concurrent goroutines
\* and a lone one) or write into the map they are given (a lone goroutine).
InitView == InitOf({"view", "mapview"}, 1) \/ InitOf({"view"}, MaxThreads)
SpecView == InitView /\ [][Next]_vars

\* Scoped calls of a lone goroutine whose callbacks write and then return, fail or
\* panic.
InitFailing == InitOf({"scope"}, 1)
SpecFailing == InitFailing /\ [][Next]_vars

\* A lone goroutine's Add, Sub and Load on a Number, for every value of the type
\* and every difference.
InitArith == InitOf({"arith"}, 1)
SpecArith == InitArith /\ [][Next]_vars

\* Instances that were declared and never constructed, used by a lone goroutine
\* and by concurrent ones.
InitZero == InitOf({"zero"}, 1) \/ InitOf({"zero"}, MaxThreads)
SpecZero == InitZero /\ [][Next]_vars

\* Concurrent Load, Store and Swap, Number operations and slice Removes and Clones,
\* and the Map and Slice operations of a lone goroutine.
InitAccess == InitOf({"value", "number", "shrink"}, MaxThreads) \/ InitOf({"map", "slice"}, 1)
SpecAccess == InitAccess /\ [][Next]_vars

\* Concurrent Load, Store and Swap, Number operations, Map operations and Slice
\* operations.
InitOps == InitOf({"value", "number", "map", "shrink"}, MaxThreads)
SpecOps == InitOps /\ [][Next]_vars

\* Callers that use Lock, RLock and GetPointer themselves, next to Add, RWith and Load.
InitManual == InitOf({"manual"}, MaxThreads) \/ InitOf({"manual"}, 1)
SpecManual == InitManual /\ [][Next]_vars

\* ================================================================ claims
Inside(t) == pc[t] \in {"cb", "cbw", "unlock"}
AllIdle == \A t \in Threads : pc[t] = "idle"

\* The operations the contract calls exclusive scopes: With/WithE and every mutating
\* operation.  Every other operation is a shared scope.
ExclusiveOps == {"With", "WithE", "Store", "Swap", "Add", "Sub", "Insert", "Remove", "Delete"}
InExclusive(t) == Inside(t) /\ call[t].op \in ExclusiveOps
InShared(t) == Inside(t) /\ call[t].op \notin ExclusiveOps

\* C1: on one guarded instance at most one goroutine is inside an exclusive scope, and
\* while one is, no goroutine is inside a shared scope; for all four wrapper types.
C1_MutualExclusion ==
    \A t \in Threads : InExclusive(t) => \A u \in Threads \ {t} : ~Inside(u)

\* A writer is inside its scope on an RWMutex-backed instance while a reader that takes
\* the read lock waits.
C1_Witness ==
    \E t, u \in Threads :
        /\ InExclusive(t)
        /\ Backend(variant) = "RWMutex"
        /\ pc[u] = "lock"
        /\ Mode(variant, call[u].op) = "S"

\* C2: once all Add and Sub calls have returned, the number is the initial value plus
\* the Add deltas minus the Sub deltas (in the arithmetic of its NumBits-wide type).
C2_NoLostUpdate == (work = "number" /\ AllIdle) => v = sum

\* All calls have been made and have returned, one goroutine ending with Add and
\* another with Sub.
C2_Witness ==
    /\ work = "number" /\ AllIdle
    /\ ncalls = MaxCalls
    /\ \E t, u \in Threads : call[t].op = "Add" /\ call[u].op = "Sub" /\ v = v0

\* C3: after a scoped access has ended, by return, by an error or by a panic in the
\* callback, its goroutine holds the lock no more, and when no scope is open the lock
\* is free, so that a following operation acquires it.
C3_LockReleased ==
    /\ \A t \in Threads : pc[t] = "idle" => ~Holds(t) /\ mu.p # t
    /\ (\A t \in Threads : pc[t] \in {"idle", "lock"}) => mu = Unlocked
    /\ \A t \in Threads :
          (pc[t] = "lock" /\ \A u \in Threads : pc[u] \in {"idle", "lock"})
              => ENABLED Acquire(t)

\* A callback wrote and panicked; another goroutine's operation then acquired the
\* lock, saw what the callback wrote and returned.
C3_Witness ==
    \E t, u \in Threads :
        /\ t # u
        /\ pc[t] = "idle" /\ ret[t].panic /\ call[t].body = "write"
        /\ pc[u] = "idle" /\ call[u].op # "none" /\ ~ret[u].panic
        /\ pre[u] = call[t].x

\* C4: WithE and RWithE return exactly the callback's error (nil for nil), run the
\* callback once, and have released the lock when the error reaches the caller.
C4_ErrorPropagation ==
    \A t \in Threads :
        (pc[t] = "idle" /\ call[t].op \in {"WithE", "RWithE"} /\ ~ret[t].panic)
            => /\ ret[t].err = call[t].e
               /\ runs[t] = 1
               /\ ~Holds(t)

\* WithE has returned one error and RWithE another.
C4_Witness ==
    \E t, u \in Threads :
        /\ pc[t] = "idle" /\ call[t].op = "WithE" /\ ret[t].err = "e1"
        /\ pc[u] = "idle" /\ call[u].op = "RWithE" /\ ret[u].err = "e2"

\* C5: nothing takes effect between a Swap's read of the old value and its write of
\* the new one: the value it read is still there when it writes, it is the value that
\* was there when the Swap got the lock, and, the stored values being distinct, no two
\* Swaps return the same value and none returns the value that is left at the end.
C5_SwapAtomic ==
    work = "value" =>
        /\ \A t \in Threads :
              (call[t].op = "Swap" /\ pc[t] = "cbw") => v = ret[t].val
        /\ \A t \in Threads :
              (call[t].op = "Swap" /\ pc[t] \in {"cbw", "unlock", "idle"})
                  => ret[t].val = pre[t]
        /\ \A i, j \in 1..Len(given) : i # j => given[i] # given[j]
        /\ \A i \in 1..Len(given) : AllIdle => given[i] # v

\* Every call was a Swap, and both goroutines swapped.
C5_Witness ==
    /\ work = "value" /\ AllIdle
    /\ Len(given) = MaxCalls
    /\ \E t, u \in Threads : t # u /\ call[t].op = "Swap" /\ call[u].op = "Swap"

\* The lone goroutine of a sequential run has returned from a call.
Returned(t) == nthr = 1 /\ pc[t] = "idle" /\ call[t].op # "none"
Size(m) == Cardinality(DOMAIN m)
SameElsewhere(m, p, k) == \A y \in DOMAIN m \ {k} : y \in DOMAIN p /\ m[y] = p[y]

\* C6: sequentially, Load after Store(x) returns x, Swap(y) returns what a Load just
\* before it returns, and Load after Swap(y) returns y; for all four wrapper types.
C6_LoadStoreSwap ==
    \A t \in Threads :
        (Returned(t) /\ work = "value") =>
            /\ (call[t].op = "Load" /\ last[t].call.op \in {"Store", "Swap"})
                  => ret[t].val = last[t].call.x
            /\ (call[t].op = "Swap" /\ last[t].call.op = "Load")
                  => ret[t].val = last[t].ret.val
            /\ (call[t].op = "Swap" /\ last[t].call.op \in {"Store", "Swap"})
                  => ret[t].val = last[t].call.x
            /\ (call[t].op \in {"Store", "Swap"}) => v = call[t].x

\* Load after Swap on a container built by NewRWMtx.
C6_Witness ==
    \E t \in Threads :
        /\ Returned(t) /\ work = "value" /\ variant = "rwMtx"
        /\ call[t].op = "Load" /\ last[t].call.op = "Swap"
        /\ ret[t].val = last[t].call.x

\* C7: Remove is one atomic read-and-delete.  The entry it found is still there, with
\* the value it read, when it deletes; what it returns is the lookup in the map as it
\* was when Remove got the lock, and the key is absent when it releases the lock; Removes never
\* find a key more often than it was put there; and of the Removes of a key that was
\* present at the start and that nobody inserted, exactly one finds it.
C7_RemoveAtomic ==
    work = "race" =>
        /\ \A t \in Threads :
              (call[t].op = "Remove" /\ pc[t] = "cbw")
                  => /\ call[t].k \in DOMAIN Content
                     /\ Content[call[t].k] = ret[t].val
        /\ \A t \in Threads :
              (call[t].op = "Remove" /\ pc[t] \in {"cbw", "unlock", "idle"})
                  => /\ ret[t].ok = (call[t].k \in DOMAIN pre[t])
                     /\ ret[t].val = IF ret[t].ok THEN pre[t][call[t].k] ELSE 0
        /\ \A t \in Threads :
              (call[t].op = "Remove" /\ pc[t] = "unlock") => call[t].k \notin DOMAIN Content
        /\ \A k \in Keys :
              stat[k].won <= stat[k].ins + (IF k \in DOMAIN v0 THEN 1 ELSE 0)
        /\ \A k \in Keys :
              (AllIdle /\ k \in DOMAIN v0 /\ stat[k].ins = 0 /\ stat[k].rem >= 1)
                  => stat[k].won = 1

\* Both goroutines removed the same key, present at the start and never inserted:
\* one of them got it.
C7_Witness ==
    /\ work = "race" /\ AllIdle
    /\ \E k \in Keys :
          /\ k \in DOMAIN v0 /\ stat[k].ins = 0 /\ stat[k].won = 1
          /\ \A t \in Threads : call[t].op = "Remove" /\ call[t].k = k
          /\ \E t \in Threads : ret[t].ok /\ ret[t].val = v0[k]
          /\ \E t \in Threads : ~ret[t].ok /\ ret[t].val = 0

\* C8: sequentially, Remove(k) of a present key returns its value and true, and then
\* ContainsKey(k) is false and Len is one less; Remove(k) of an absent key returns
\* false and changes nothing; Delete(k) removes k if present, else changes nothing,
\* and fails in neither case; no entry of another key changes.
C8_RemoveDelete ==
    \A t \in Threads :
        (Returned(t) /\ work = "map") =>
            /\ call[t].op = "Remove" =>
                  /\ ~ret[t].panic
                  /\ ret[t].ok = (call[t].k \in DOMAIN pre[t])
                  /\ ret[t].val = IF call[t].k \in DOMAIN pre[t] THEN pre[t][call[t].k] ELSE 0
            /\ call[t].op \in {"Remove", "Delete"} =>
                  /\ ~ret[t].panic /\ ret[t].err = NilErr
                  /\ DOMAIN Content = DOMAIN pre[t] \ {call[t].k}
                  /\ SameElsewhere(Content, pre[t], call[t].k)
                  /\ Size(Content) =
                        Size(pre[t]) - (IF call[t].k \in DOMAIN pre[t] THEN 1 ELSE 0)
                  /\ call[t].k \notin DOMAIN pre[t] => Content = pre[t]
            /\ (last[t].call.op \in {"Remove", "Delete"} /\ call[t].k = last[t].call.k) =>
                  /\ call[t].op = "ContainsKey" => ~ret[t].ok
                  /\ call[t].op = "Remove" => ~ret[t].ok /\ ret[t].val = 0
            /\ (last[t].call.op = "Remove" /\ last[t].ret.ok /\ call[t].op = "Len")
                  => ret[t].val = Size(last[t].pre) - 1

\* Remove found the key that the Insert before it had put into the map.
C8_Witness ==
    \E t \in Threads :
        /\ Returned(t) /\ work = "map"
        /\ call[t].op = "Remove" /\ ret[t].ok
        /\ last[t].call.op = "Insert" /\ last[t].call.k = call[t].k
        /\ ret[t].val = last[t].call.x
        /\ Size(Content) = Size(pre[t]) - 1

\* C9: sequentially, Insert(k, x) adds k or overwrites its value and changes no other
\* entry, so that Len grows by one exactly when k was absent; then Get(k) returns
\* (x, true), ContainsKey(k) true and GetKeyValue(k) (k, x, true).  For an absent key
\* the three lookups return found = false with zero values and do not fail.
C9_InsertLookup ==
    \A t \in Threads :
        (Returned(t) /\ work = "map") =>
            /\ call[t].op = "Insert" =>
                  /\ ~ret[t].panic
                  /\ DOMAIN Content = DOMAIN pre[t] \cup {call[t].k}
                  /\ Content[call[t].k] = call[t].x
                  /\ SameElsewhere(Content, pre[t], call[t].k)
                  /\ Size(Content) =
                        Size(pre[t]) + (IF call[t].k \in DOMAIN pre[t] THEN 0 ELSE 1)
            /\ (last[t].call.op = "Insert" /\ call[t].k = last[t].call.k) =>
                  /\ call[t].op = "Get" => ret[t].ok /\ ret[t].val = last[t].call.x
                  /\ call[t].op = "ContainsKey" => ret[t].ok
                  /\ call[t].op = "GetKeyValue" =>
                        ret[t].ok /\ ret[t].val = last[t].call.x /\ ret[t].key = call[t].k
            /\ (call[t].op \in {"Get", "ContainsKey", "GetKeyValue"}
                    /\ call[t].k \notin DOMAIN pre[t]) =>
                  /\ ~ret[t].ok /\ ret[t].val = 0 /\ ret[t].key = 0
                  /\ ~ret[t].panic /\ ret[t].err = NilErr
                  /\ Content = pre[t]

\* GetKeyValue after an Insert that overwrote the value of a present key.
C9_Witness ==
    \E t \in Threads :
        /\ Returned(t) /\ work = "map"
        /\ call[t].op = "GetKeyValue" /\ ret[t].ok
        /\ last[t].call.op = "Insert" /\ last[t].call.k = call[t].k
        /\ call[t].k \in DOMAIN last[t].pre
        /\ last[t].pre[call[t].k] # last[t].call.x
        /\ Size(last[t].pre) = Size(Content)

\* What a returned value of type T denotes now.
Denotes(x) == Deref(Kind(work), x, heap)

\* C10 as stated: what Load returned is an independent copy for every T, maps
\* included: an operation on the container after the Load does not change it.
C10_LoadIsCopy ==
    \A t \in Threads :
        (Returned(t) /\ last[t].call.op = "Load") => Denotes(last[t].ret.val) = last[t].pre

\* C10, amended: Load returns the guarded field by assignment.  For a number or
\* another plain value that is an independent copy of the content at the time of the
\* Load; for a map it is a reference to the guarded map itself, which goes on showing
\* the container's content after every later operation.
C10_LoadAssigns ==
    \A t \in Threads :
        /\ (Returned(t) /\ call[t].op = "Load") =>
              /\ ret[t].val = v
              /\ Denotes(ret[t].val) = pre[t]
        /\ (Returned(t) /\ last[t].call.op = "Load") =>
              IF Kind(work) = "map"
              THEN last[t].ret.val = v /\ Denotes(last[t].ret.val) = Content
              ELSE last[t].ret.val = last[t].pre

\* A map was loaded, then changed through the container: the loaded map changed.
C10_Witness ==
    \E t \in Threads :
        /\ Returned(t) /\ work = "map"
        /\ last[t].call.op = "Load" /\ call[t].op = "Insert"
        /\ Denotes(last[t].ret.val) # last[t].pre
        /\ Denotes(last[t].ret.val) = Content

\* ---- sequences, as the contract of Slice speaks of them
InsertAt(q, i, el) == SubSeq(q, 1, i) \o <<el>> \o SubSeq(q, i + 1, Len(q))
RemoveAt(q, i) == SubSeq(q, 1, i) \o SubSeq(q, i + 2, Len(q))
\* The lone goroutine's previous call was op and has returned; a next one was made.
After(t, op) == nthr = 1 /\ last[t].call.op = op /\ ~last[t].ret.panic

\* C11: what Clone returns, on a Map and on a Slice, equals the content at the call;
\* no mutating operation on the container after it changes the copy, at any point of
\* its execution, and a write to the copy does not change the container.
C11_CloneIndependent ==
    \A t \in Threads :
        /\ (Returned(t) /\ call[t].op = "Clone") =>
              /\ Denotes(ret[t].val) = pre[t]
              /\ Content = pre[t]
        /\ (After(t, "Clone") /\ call[t].op \notin {"Touch", "Load", "Len"}) =>
              Denotes(last[t].ret.val) = last[t].pre
        /\ (After(t, "Clone") /\ call[t].op = "Touch") => Content = last[t].pre

\* A Slice was cloned and then an element was removed inside its backing array: the
\* clone still is what the slice was.
C11_Witness ==
    \E t \in Threads :
        /\ Returned(t) /\ work = "copy" /\ After(t, "Clone")
        /\ call[t].op = "Remove" /\ ~ret[t].panic
        /\ Content # <<>> /\ ret[t].val # Content[1]
        /\ Denotes(last[t].ret.val) = last[t].pre
        /\ Content = RemoveAt(last[t].pre, call[t].k)

\* An operation on a Slice by the lone goroutine has returned or has panicked its
\* way out, the lock released.
Done(t, op) == Returned(t) /\ Kind(work) = "slice" /\ call[t].op = op

\* C12 as stated: Insert with an index outside 0 <= i <= Len fails, the slice has the
\* same length and the same elements as before the call, and the lock is released.
C12_FailedInsertLeavesNothing ==
    \A t \in Threads :
        (Done(t, "Insert") /\ (call[t].k < 0 \/ call[t].k > Len(pre[t]))) =>
            /\ ret[t].panic
            /\ Content = pre[t]
            /\ mu = Unlocked

\* Insert(Len + 1, x) has failed and has released the lock; it left the slice one
\* element longer, the zero value at its tail.
C12_Witness ==
    \E t \in Threads :
        /\ Done(t, "Insert") /\ call[t].k = Len(pre[t]) + 1
        /\ ret[t].panic /\ mu = Unlocked
        /\ Content = pre[t] \o <<0>>

\* The lone goroutine of the TestSlice run has returned from the n-th call of the script.
Step(t, n) == work = "example" /\ Returned(t) /\ ncalls = n

\* C13: Get(i) and Remove(i) with an index outside 0 <= i < Len fail; the slice then
\* has the elements it had before the call, in the same array, and the lock is free.
\* In TestSlice, Remove(1) on [4] fails and the slice remains [4].
C13_GetRemoveFailClean ==
    \A t \in Threads :
        /\ ((Done(t, "Get") \/ Done(t, "Remove"))
                /\ (call[t].k < 0 \/ call[t].k >= Len(pre[t]))) =>
              /\ ret[t].panic
              /\ Content = pre[t] /\ v.len = Len(pre[t])
              /\ mu = Unlocked
        /\ Step(t, 5) => pre[t] = <<4>> /\ ret[t].panic /\ Content = <<4>>

\* The second Remove(1) of TestSlice has failed on the slice [4].
C13_Witness ==
    \E t \in Threads :
        /\ Step(t, 5) /\ call[t].op = "Remove" /\ call[t].k = 1
        /\ ret[t].panic /\ Content = <<4>> /\ mu = Unlocked

\* The lone goroutine's previous call was a Shift or Pop that failed.
AfterFailedTake(t) ==
    nthr = 1 /\ last[t].call.op \in {"Shift", "Pop"} /\ last[t].ret.panic

\* C14: Shift and Pop on an empty Slice fail and return no value; the slice is still
\* empty and the lock is free, and the operation that follows acquires the lock and
\* works on the empty slice as usual.
C14_EmptyTakeFails ==
    \A t \in Threads :
        /\ ((Done(t, "Shift") \/ Done(t, "Pop")) /\ pre[t] = <<>>) =>
              /\ ret[t].panic /\ ret[t].val = 0
              /\ Content = <<>>
              /\ mu = Unlocked
        /\ (AfterFailedTake(t) /\ Kind(work) = "slice") =>
              /\ last[t].pre = <<>>
              /\ pc[t] = "lock" => ENABLED Acquire(t)
              /\ Returned(t) => ~ret[t].panic /\ pre[t] = <<>>
              /\ (Returned(t) /\ call[t].op = "Load") => Denotes(ret[t].val) = <<>>
              /\ (Returned(t) /\ call[t].op = "Len") => ret[t].val = 0

\* Pop failed on an empty slice, and the Len after it returned 0.
C14_Witness ==
    \E t \in Threads :
        /\ AfterFailedTake(t) /\ last[t].call.op = "Pop" /\ Kind(work) = "slice"
        /\ Returned(t) /\ call[t].op = "Len" /\ ret[t].val = 0 /\ ~ret[t].panic

\* C15: for every slice and every index 0 <= i <= Len, Insert(i, el) does not fail
\* and turns s into s[0..i), el, s[i..Len): one element more, el at index i, the others
\* in their order.  Insert(Len, el) leaves what Append(el) leaves.  In TestSlice,
\* Insert(2, 8) on [4, 5, 6, 7] yields [4, 5, 8, 6, 7].
C15_InsertAt ==
    \A t \in Threads :
        /\ (Done(t, "Insert") /\ 0 <= call[t].k /\ call[t].k <= Len(pre[t])) =>
              /\ ~ret[t].panic /\ mu = Unlocked
              /\ Content = InsertAt(pre[t], call[t].k, call[t].x)
              /\ Len(Content) = Len(pre[t]) + 1
              /\ Content[call[t].k + 1] = call[t].x
              /\ \A j \in 1..Len(pre[t]) :
                    pre[t][j] = Content[IF j <= call[t].k THEN j ELSE j + 1]
        /\ (Done(t, "Append") /\ Len(call[t].els) = 1) =>
              Content = InsertAt(pre[t], Len(pre[t]), call[t].els[1])
        /\ Step(t, 8) => pre[t] = <<4, 5, 6, 7>> /\ Content = <<4, 5, 8, 6, 7>>

\* The Insert(2, 8) of TestSlice has returned.
C15_Witness ==
    \E t \in Threads :
        /\ Step(t, 8) /\ call[t].op = "Insert" /\ ~ret[t].panic
        /\ Content = <<4, 5, 8, 6, 7>>

\* C16: for every slice and every index 0 <= i < Len, Remove(i) returns s[i] and, when
\* it releases the lock, has turned s into s[0..i), s[i+1..Len): one element less, the
\* others in their order.  The removal and the new length show together: whatever a
\* goroutine finds when it gets the lock, and whatever Clone returns, is the slice as
\* it was at the start or as an operation left it, never a state in between.
C16_RemoveAt ==
    /\ \A t \in Threads :
          (Done(t, "Remove") /\ 0 <= call[t].k /\ call[t].k < Len(pre[t])) =>
              /\ ~ret[t].panic /\ mu = Unlocked
              /\ ret[t].val = pre[t][call[t].k + 1]
              /\ Content = RemoveAt(pre[t], call[t].k)
              /\ Len(Content) = Len(pre[t]) - 1
    /\ work = "shrink" =>
        /\ \A t \in Threads :
              (call[t].op = "Remove" /\ pc[t] \in {"cbw", "unlock", "idle"}
                    /\ 0 <= call[t].k /\ call[t].k < Len(pre[t])) =>
                  /\ ~ret[t].panic
                  /\ ret[t].val = pre[t][call[t].k + 1]
                  /\ pc[t] = "unlock" =>
                        /\ Content = RemoveAt(pre[t], call[t].k)
                        /\ Len(Content) = Len(pre[t]) - 1
        /\ \A u \in Threads : Inside(u) => pre[u] \in committed
        /\ \A u \in Threads :
              (call[u].op = "Clone" /\ pc[u] \in {"unlock", "idle"}) =>
                  /\ Denotes(ret[u].val) = pre[u]
                  /\ Denotes(ret[u].val) \in committed

\* A Remove has moved the elements inside the array and has not yet stored the
\* shorter slice, the slice being in a state no operation left it in, while a Clone
\* waits for the lock.
C16_Witness ==
    \E t, u \in Threads :
        /\ work = "shrink"
        /\ call[t].op = "Remove" /\ pc[t] = "cbw"
        /\ Content \notin committed
        /\ call[u].op = "Clone" /\ pc[u] = "lock"

\* C17: Append(e1..ek) leaves the elements in place and adds e1..ek behind them in
\* call order, Len growing by k; Unshift(e) puts e at index 0 and every element one
\* position further, Len growing by one; neither fails.  In TestSlice, Unshift(4) on
\* [2, 3] gives [4, 2, 3] and Append(5, 6, 7) on [4] gives [4, 5, 6, 7].
C17_AppendUnshift ==
    \A t \in Threads :
        /\ Done(t, "Append") =>
              /\ ~ret[t].panic /\ mu = Unlocked
              /\ Content = pre[t] \o call[t].els
              /\ Len(Content) = Len(pre[t]) + Len(call[t].els)
        /\ Done(t, "Unshift") =>
              /\ ~ret[t].panic /\ mu = Unlocked
              /\ Content = <<call[t].x>> \o pre[t]
              /\ Len(Content) = Len(pre[t]) + 1
              /\ \A j \in 1..Len(pre[t]) : Content[j + 1] = pre[t][j]
        /\ Step(t, 2) => pre[t] = <<2, 3>> /\ Content = <<4, 2, 3>>
        /\ Step(t, 6) => pre[t] = <<4>> /\ Content = <<4, 5, 6, 7>>

\* Two different elements were appended behind the elements the slice held.
C17_Witness ==
    \E t \in Threads :
        /\ Done(t, "Append") /\ Len(call[t].els) = 2 /\ call[t].els[1] # call[t].els[2]
        /\ pre[t] # <<>> /\ ~ret[t].panic
        /\ Content = pre[t] \o call[t].els

\* C18: on a non-empty Slice, Shift returns the element at index 0 and leaves the
\* others in order, Pop returns the last element and leaves the ones before it in
\* order, and each shrinks Len by one.  TestSlice: from [1, 2, 3], Shift returns 1
\* leaving [2, 3]; Unshift(4) gives [4, 2, 3]; Pop returns 3 leaving [4, 2];
\* Remove(1) returns 2 leaving [4].
C18_ShiftPop ==
    \A t \in Threads :
        /\ (Done(t, "Shift") /\ pre[t] # <<>>) =>
              /\ ~ret[t].panic /\ mu = Unlocked
              /\ ret[t].val = Head(pre[t])
              /\ Content = Tail(pre[t])
              /\ Len(Content) = Len(pre[t]) - 1
        /\ (Done(t, "Pop") /\ pre[t] # <<>>) =>
              /\ ~ret[t].panic /\ mu = Unlocked
              /\ ret[t].val = pre[t][Len(pre[t])]
              /\ Content = SubSeq(pre[t], 1, Len(pre[t]) - 1)
              /\ Len(Content) = Len(pre[t]) - 1
        /\ Step(t, 1) => pre[t] = <<1, 2, 3>> /\ ret[t].val = 1 /\ Content = <<2, 3>>
        /\ Step(t, 2) => Content = <<4, 2, 3>>
        /\ Step(t, 3) => ret[t].val = 3 /\ Content = <<4, 2>>
        /\ Step(t, 4) => ret[t].val = 2 /\ Content = <<4>> /\ ~ret[t].panic

\* The first Remove(1) of TestSlice has returned 2, after the Shift, the Unshift
\* and the Pop.
C18_Witness ==
    \E t \in Threads :
        /\ Step(t, 4) /\ call[t].op = "Remove" /\ last[t].call.op = "Pop"
        /\ last[t].ret.val = 3 /\ last[t].pre = <<4, 2, 3>>
        /\ ret[t].val = 2 /\ Content = <<4>>

\* C19: Filter returns a new sequence of exactly the elements that satisfy the
\* predicate, in their order (empty when none does), and leaves the slice as it was;
\* a later write to the result does not change the slice, and a later operation on
\* the slice does not change the result.
C19_Filter ==
    \A t \in Threads :
        /\ Done(t, "Filter") =>
              /\ ~ret[t].panic /\ mu = Unlocked
              /\ Denotes(ret[t].val) = SelectSeq(pre[t], LAMBDA x : x \in call[t].keep)
              /\ ret[t].val.a # v.a
              /\ Content = pre[t]
        /\ (After(t, "Filter") /\ call[t].op = "Touch") => Content = last[t].pre
        /\ (After(t, "Filter") /\ call[t].op \notin {"Touch", "Load", "Len"}) =>
              Denotes(last[t].ret.val) =
                  SelectSeq(last[t].pre, LAMBDA x : x \in last[t].call.keep)

\* Filter kept some elements and dropped others; the caller then changed an element
\* of the result, and the slice is what it was.
C19_Witness ==
    \E t \in Threads :
        /\ After(t, "Filter") /\ Returned(t) /\ call[t].op = "Touch"
        /\ last[t].ret.val.len > 0 /\ last[t].ret.val.len < Len(last[t].pre)
        /\ Denotes(last[t].ret.val) #
               SelectSeq(last[t].pre, LAMBDA x : x \in last[t].call.keep)
        /\ Content = last[t].pre

\* A goroutine is inside the callback of RWith or RWithE.
InRWith(t) == Inside(t) /\ call[t].op \in {"RWith", "RWithE"}

\* C20: on a sync.RWMutex backend shared scopes are compatible: a goroutine that
\* asks for the read lock gets it while others are inside RWith/RWithE callbacks,
\* unless a writer holds or waits; a goroutine that asks for exclusive access cannot
\* get it while a shared scope is open, and when it is inside its own scope all of
\* them have left.
C20_SharedCompatible ==
    (work = "readers" /\ Backend(variant) = "RWMutex") =>
        /\ \A t \in Procs :
              (pc[t] = "lock" /\ call[t].op \in {"RWith", "RWithE"}
                    /\ mu.w = NoThread /\ mu.p = NoThread) => ENABLED Acquire(t)
        /\ \A t \in Procs :
              (call[t].op = "With" /\ pc[t] = "wait" /\ \E u \in Procs : InRWith(u))
                  => ~ENABLED Acquire(t)
        /\ \A t \in Procs : InExclusive(t) => \A u \in Procs \ {t} : ~Inside(u)

\* Two goroutines are inside RWith/RWithE callbacks on one RWMutex-backed instance
\* at the same time, and a third, which called With, waits for them.
C20_Witness ==
    \E t, u, w \in Procs :
        /\ work = "readers" /\ Backend(variant) = "RWMutex"
        /\ t # u
        /\ InRWith(t) /\ pc[t] = "cb"
        /\ InRWith(u) /\ pc[u] = "cb"
        /\ call[w].op = "With" /\ pc[w] = "wait"
        /\ ~ENABLED Acquire(w)

\* A goroutine is between its own Lock or RLock and its Unlock or RUnlock.
InBracket(t) ==
    /\ call[t].body \in {"bracket", "rbracket"}
    /\ \/ call[t].op \in LockMethods /\ pc[t] = "idle"
       \/ call[t].op \in {"GetPointer", "PtrRead", "PtrWrite"}
       \/ call[t].op \in UnlockMethods /\ pc[t] = "unlock"
\* A goroutine is inside a callback or inside a bracket of its own.
InScope(t) == Inside(t) \/ InBracket(t)
\* A goroutine reads under RLock: in an RWith callback, in a Load, or in its own
\* RLock bracket.
Reads(t) ==
    \/ Inside(t) /\ call[t].op \in {"RWith", "Load"}
    \/ InBracket(t) /\ call[t].body = "rbracket"

\* C21: on a sync.Mutex backend RLock and RUnlock are Lock and Unlock: nobody ever
\* holds a read lock, whoever is inside a scope (a callback, or the caller's own
\* Lock or RLock bracket) is the one holder of the mutex, and no two goroutines are
\* inside scopes at once - in particular no two RWith callbacks, Loads or RLock
\* brackets overlap.
C21_RLockIsLock ==
    (work = "manual" /\ Backend(variant) = "Mutex") =>
        /\ mu.r = {} /\ mu.p = NoThread
        /\ \A t \in Threads : InScope(t) => mu.w = t
        /\ \A t, u \in Threads : (t # u /\ InScope(t)) => ~InScope(u)
        /\ \A t \in Threads :
              (pc[t] = "lock" /\ \E u \in Threads : Reads(u)) => ~ENABLED Acquire(t)

\* On a sync.Mutex backend one goroutine is inside an RWith callback while another,
\* which called RLock itself, has to wait.
C21_Witness ==
    \E t, u \in Threads :
        /\ work = "manual" /\ Backend(variant) = "Mutex"
        /\ call[t].op = "RWith" /\ pc[t] = "cb"
        /\ call[u].op = "RLock" /\ pc[u] = "lock"
        /\ ~ENABLED Acquire(u)

\* C22: on every sync.RWMutex-backed container (NewRWMtx, NewRWMap, NewRWSlice,
\* NewRWNumber, RWMutex, RWMutexMap, RWMutexSlice, RWMutexNumber) Load holds the lock
\* in shared mode, and a Load that finds no writer holding or waiting gets the lock
\* and completes even while another goroutine is inside an RWith callback.
C22_LoadIsShared ==
    (work = "manual" /\ Backend(variant) = "RWMutex") =>
        \A t \in Threads :
            call[t].op = "Load" =>
                /\ Inside(t) => t \in mu.r /\ mu.w = NoThread
                /\ (pc[t] \in {"lock", "wait"} /\ mu.w = NoThread /\ mu.p \in {NoThread, t})
                      => ENABLED Acquire(t)
                /\ pc[t] # "wait"

\* On a container built by NewRWMtx a Load waits, as a writer, for the goroutine
\* that is inside an RWith callback.
C22_Witness ==
    \E t, u \in Threads :
        /\ work = "manual" /\ variant = "rwMtx"
        /\ call[u].op = "RWith" /\ pc[u] = "cb" /\ u \in mu.r
        /\ call[t].op = "Load" /\ pc[t] = "wait" /\ mu.p = t
        /\ ~ENABLED Acquire(t)

\* Nothing but the lock could keep goroutine t from making its next call.
CanCall(t) ==
    /\ t <= nthr /\ pc[t] = "idle"
    /\ \A u \in 1..(t - 1) : call[u].op # "none"
    /\ Continues(t) \/ ncalls < Budget
\* Goroutine t makes a call of method (or runs its statement) o in this step.
Makes(t, o) == call'[t].op = o /\ call'[t] # call[t]

\* C23: GetPointer takes no lock and waits for none: whenever a goroutine is about to
\* call it, the call can be made and returns at once, whoever holds the lock and in
\* whatever mode; the call leaves the lock and the value as they are and returns the
\* address of the guarded field itself: a write through it is the guarded value from
\* then on, and it is what Load returns next.
C23_GetPointer ==
    [][ /\ \A t \in Threads : \A c \in NextCalls(t) :
              (c.op = "GetPointer" /\ CanCall(t)) => ENABLED CallOf(t, c)
        /\ \A t \in Threads :
              Makes(t, "GetPointer") =>
                  /\ mu' = mu /\ v' = v
                  /\ pc'[t] = "idle" /\ ret'[t].ptr = "v"
        /\ \A t \in Threads : Makes(t, "PtrWrite") => v' = call'[t].x /\ mu' = mu
        /\ \A t \in Threads :
              (nthr = 1 /\ call[t].op = "Load" /\ pc[t] = "unlock"
                    /\ last[t].call.op = "PtrWrite")
                  => ret[t].val = last[t].call.x
      ]_vars

\* A goroutine has written through the pointer it got from GetPointer while another
\* was inside the callback of Add, holding the lock exclusively: the value is no
\* more what it was when that one acquired the lock.
C23_Witness ==
    \E t, u \in Threads :
        /\ work = "manual" /\ t # u
        /\ mu.w = u /\ call[u].op = "Add" /\ pc[u] = "cb"
        /\ call[t].body = "raw" /\ call[t].op = "PtrWrite" /\ ret[t].ptr = "v"
        /\ v = call[t].x /\ v # pre[u]

\* No goroutine is inside an operation or inside a bracket of its own.
Quiet == \A t \in Threads : pc[t] = "idle" /\ ~InBracket(t)
\* Nobody has yet written through GetPointer without holding the lock.
NoRawWrite == given = <<>>

\* C24: a goroutine between its own Lock and Unlock is the one holder of the lock
\* and no other goroutine is inside a callback or a bracket; what it read through
\* GetPointer is still the value when it writes; and as long as nobody has written
\* through GetPointer without the lock, the number is, whenever all is quiet, the
\* initial value plus one for every bracket and every Add that has ended: no
\* increment is lost.  (Every lost increment goes with an unbracketed write.)
C24_BracketExcludes ==
    work = "manual" =>
        /\ \A t \in Threads :
              (InBracket(t) /\ call[t].body = "bracket") =>
                  /\ mu.w = t /\ mu.r = {}
                  /\ \A u \in Threads \ {t} : ~InScope(u)
        /\ \A t \in Threads :
              (InBracket(t) /\ call[t].body = "bracket" /\ call[t].op = "PtrRead"
                    /\ NoRawWrite)
                  => tmp[t] = v
        /\ (Quiet /\ NoRawWrite) => v = sum
        /\ (Quiet /\ v # sum) => ~NoRawWrite

\* One goroutine has incremented inside its own Lock/Unlock bracket and another
\* through Add, with no unbracketed write: the number is two more than at the start.
C24_Witness ==
    \E t, u \in Threads :
        /\ work = "manual" /\ Quiet /\ NoRawWrite
        /\ call[t].op = "Unlock" /\ call[u].op = "Add"
        /\ v = (v0 + 2) % Mod /\ v = sum

\* The same increment through GetPointer without the bracket: a bracket and an
\* unbracketed read-modify-write have both ended and one increment is missing.
C24_RawLosesUpdate ==
    \E t, u \in Threads :
        /\ work = "manual" /\ Quiet
        /\ call[t].op = "Unlock"
        /\ call[u].body = "raw" /\ call[u].op = "PtrWrite"
        /\ sum = (v0 + 2) % Mod /\ v = (v0 + 1) % Mod

\* Goroutine t's With callback has looked key k up and found it absent / present.
FoundAbsent(t, k) == call[t].body = "absent" /\ call[t].k = k /\ runs[t] = 1 /\ ~ret[t].ok
FoundPresent(t, k) == call[t].body = "absent" /\ call[t].k = k /\ runs[t] = 1 /\ ret[t].ok

\* C25: With holds the lock from before the callback's lookup until after its
\* insert.  A callback that found its key absent finds it still absent when it
\* inserts; once it has inserted, its value is the key's value from then on; a
\* callback that found the key present leaves the value of another; so of two
\* goroutines that each run With(insert my own value if k is absent) never both
\* insert, and when k was absent at the start and they are the only callers,
\* exactly one inserts and the other sees k present.
C25_WithAtomic ==
    work = "once" =>
        /\ \A t \in Threads :
              pc[t] \in {"cb", "cbw"} => mu.w = t /\ \A u \in Threads \ {t} : ~Inside(u)
        /\ \A t \in Threads : \A k \in Keys :
              (FoundAbsent(t, k) /\ pc[t] = "cbw") => k \notin DOMAIN Content
        /\ \A t \in Threads : \A k \in Keys :
              (FoundAbsent(t, k) /\ pc[t] \in {"unlock", "idle"})
                  => k \in DOMAIN Content /\ Content[k] = call[t].x
        /\ \A t \in Threads : \A k \in Keys :
              FoundPresent(t, k) => k \in DOMAIN Content /\ Content[k] # call[t].x
        /\ \A t, u \in Threads : \A k \in Keys :
              (t # u /\ FoundAbsent(t, k)) => ~FoundAbsent(u, k)
        /\ \A t, u \in Threads : \A k \in Keys :
              (t # u /\ ncalls = 2 /\ k \notin DOMAIN v0
                    /\ call[t].k = k /\ call[u].k = k
                    /\ pc[t] = "idle" /\ pc[u] = "idle" /\ runs[t] = 1 /\ runs[u] = 1)
                  => FoundAbsent(t, k) # FoundAbsent(u, k)

\* Two goroutines ran their callbacks for a key that was absent: the first inserted
\* its value, the other found the key present, and the value is the first one's.
C25_Witness ==
    \E t, u \in Threads : \E k \in Keys :
        /\ work = "once" /\ Backend(variant) = "RWMutex" /\ t # u /\ k \notin DOMAIN v0
        /\ FoundAbsent(t, k) /\ pc[t] = "idle"
        /\ FoundPresent(u, k) /\ pc[u] = "idle"
        /\ pre[u] = Content /\ pre[t] = v0
        /\ Content[k] = call[t].x /\ ncalls = 2

\* Goroutine t is in a call that the callback of its call on the same instance
\* made; that call has returned into the callback; both calls take the read lock.
NestedSame(t) == call[t].outer # "none" /\ call[t].oinst = call[t].inst
ReturnedSame(t) == call[t].body = "called" /\ call[t].on = call[t].inst
BothShared(t) ==
    Mode(variant, call[t].op) = "S" /\ Mode(variant, call[t].outer) = "S"

\* C30 as stated: an operation called from inside the callback of an operation on
\* the same instance never gets the lock and never returns, whatever the two modes
\* and the backend.
C30_ReentryDeadlocks ==
    work = "reenter" =>
        \A t \in Threads :
            /\ NestedSame(t) => pc[t] \in {"lock", "wait"}
            /\ ~ReturnedSame(t)

\* C30, amended: the inner call never gets the lock, and so never returns, on a
\* sync.Mutex backend and, on a sync.RWMutex backend, when the outer or the inner
\* call is exclusive.  When both take the read lock of a sync.RWMutex (RWith inside
\* RWith), the inner call gets the lock and returns as long as no writer has asked
\* for the lock; when one has, the inner call waits for that writer and the writer
\* for the outer call: neither ever proceeds.
C30_ReentryDeadlocksUnlessShared ==
    work = "reenter" =>
        \A t \in Threads :
            /\ (NestedSame(t) /\ ~BothShared(t)) =>
                  /\ pc[t] \in {"lock", "wait"}
                  /\ (pc[t] = "wait" \/ ~AcqAnnounces(t)) => ~ENABLED Acquire(t)
            /\ ReturnedSame(t) =>
                  /\ Backend(variant) = "RWMutex"
                  /\ Mode(variant, call[t].op) = "S" /\ Mode(variant, call[t].inner) = "S"
            /\ (NestedSame(t) /\ BothShared(t) /\ pc[t] = "lock") =>
                  /\ t \in mu.r /\ mu.w = NoThread
                  /\ mu.p = NoThread => ENABLED Acquire(t)
                  /\ mu.p # NoThread =>
                        /\ ~ENABLED Acquire(t)
                        /\ pc[mu.p] = "wait" /\ ~ENABLED Acquire(mu.p)

\* On a sync.RWMutex backend a callback of RWith has called With on its own
\* instance: the call waits for its own goroutine's read lock, and the other
\* goroutine, which called RWith, waits behind it.  Nothing can move.
C30_Witness ==
    \E t, u \in Threads :
        /\ work = "reenter" /\ Backend(variant) = "RWMutex" /\ t # u
        /\ NestedSame(t) /\ call[t].outer = "RWith" /\ call[t].op = "With"
        /\ pc[t] = "wait" /\ mu.p = t /\ t \in mu.r
        /\ call[u].op = "RWith" /\ pc[u] = "lock"
        /\ ~ENABLED Next

\* A callback of RWith has called RWith on its own sync.RWMutex-backed instance and
\* that call has returned.
C30_SharedReentryReturns ==
    \E t \in Threads :
        /\ work = "reenter" /\ ReturnedSame(t)
        /\ call[t].op = "RWith" /\ call[t].inner = "RWith" /\ pc[t] = "idle"

\* Goroutine t has called an operation that has not yet got its lock.
Waits(t) == pc[t] \in {"lock", "wait"}

\* C26 as stated: under fair scheduling every operation that was called gets its
\* lock and returns, also when callbacks call operations of other instances.
C26_Progress == \A t \in Threads : Waits(t) ~> (pc[t] = "idle")

\* C26, amended: under fair scheduling every operation that was called gets its
\* lock and returns (by return, error or panic of its callback), provided that no
\* callback calls into its own instance and that callbacks which call into other
\* instances all do so in one order of the instances (here: from a callback on
\* instance 1 into instance 2 only).
C26_ProgressInOrder ==
    \A t \in Threads : (work # "cross" /\ Waits(t)) ~> (pc[t] = "idle")

\* A goroutine is in a call on instance 2 made by its callback on instance 1 and
\* holds both locks; the other goroutine has called an operation on instance 1 and
\* cannot get the lock yet.
C26_Witness ==
    \E t, u \in Threads :
        /\ work = "ordered" /\ t # u
        /\ call[t].outer # "none" /\ call[t].oinst = 1 /\ call[t].inst = 2
        /\ pc[t] = "cb" /\ mu.w = t
        /\ Waits(u) /\ call[u].inst = 1 /\ ~ENABLED Acquire(u)

\* Two callbacks have each called into the other's instance: each goroutine holds
\* the lock the other one asks for, and nothing can move.
C26_CrossDeadlock ==
    \E t, u \in Threads :
        /\ work = "cross" /\ t # u
        /\ call[t].outer # "none" /\ call[t].oinst = 1 /\ call[t].inst = 2
        /\ call[u].outer # "none" /\ call[u].oinst = 2 /\ call[u].inst = 1
        /\ Waits(t) /\ Waits(u)
        /\ ~ENABLED Next

\* ---- C27
\* The operations that return a map or a slice: the caller gets a reference, and
\* what it denotes is the result.
ReturnsRef(c) ==
    \/ Kind(work) = "map" /\ c.op \in {"Clone", "Load"}
    \/ Kind(work) = "slice" /\ c.op \in {"Clone", "Filter", "Load"}
Result(c, r, hp) ==
    IF ReturnsRef(c) THEN [r EXCEPT !.val = Deref(Kind(work), r.val, hp)] ELSE r
\* The operation of goroutine t has left the value and the results that the same
\* operation leaves when it runs alone on the content the goroutine found when it
\* got the lock.
AsIfAlone(t) ==
    LET s == Unsynchronized(call[t], pre[t])
    IN /\ Content = Deref(Kind(work), s.v, s.heap)
       /\ Result(call[t], ret[t], heap) = Result(call[t], Outcome(call[t], s.ret), s.heap)

\* C27: every concurrent execution of Load, Store, Swap and of the Map, Slice and
\* Number operations on one instance is equivalent to running the operations one at
\* a time in the order in which they acquired the lock: an operation that has got
\* the lock finds, when its closure starts, the content that was there when it got
\* the lock, and when its closure has ended, the value and the operation's results
\* are those of the unsynchronized operation applied to that content.
C27_Linearizable ==
    \A t \in Threads :
        /\ pc[t] = "cb" => Content = pre[t]
        /\ pc[t] = "unlock" => AsIfAlone(t)

\* Reached: an operation has changed the value it found while another goroutine's
\* operation was waiting for the lock, after an earlier operation had changed the
\* initial value.
C27_Witness ==
    \E t, u \in Threads :
        /\ t # u
        /\ pc[t] = "unlock" /\ pc[u] \in {"lock", "wait"}
        /\ call[t].op \in {"Swap", "Add", "Sub", "Insert", "Remove"}
        /\ Content # pre[t]
        /\ ncalls = MaxCalls
        /\ AsIfAlone(t)

\* ---- C28
\* The instance is a Mutex[T] or an RWMutex[T] that no constructor has touched.
ZeroMutex == work = "zero" /\ variant \in {"baseMutex", "baseRWMutex"}

\* C28: a zero-value Mutex[T] or RWMutex[T] that never went through a constructor is
\* usable: it starts unlocked holding the zero value of T, no call on it panics, a
\* Load before any Store or Swap returns the zero value, and Store(x) followed by
\* Load returns x.
C28_ZeroValueUsable ==
    ZeroMutex =>
        /\ ncalls = 0 => mu = Unlocked /\ v = 0
        /\ \A t \in Threads :
              /\ ~ret[t].panic
              /\ (Returned(t) /\ call[t].op = "Load" /\ last[t].call.op = "none")
                    => ret[t].val = 0
              /\ (Returned(t) /\ call[t].op = "Load" /\ last[t].call.op = "Store")
                    => ret[t].val = last[t].call.x

\* Reached: on a zero-value RWMutex[T], Load has returned the value of the Store
\* before it, which is not the zero value.
C28_Witness ==
    \E t \in Threads :
        /\ ZeroMutex /\ variant = "baseRWMutex"
        /\ Returned(t) /\ call[t].op = "Load" /\ last[t].call.op = "Store"
        /\ ret[t].val = last[t].call.x /\ ret[t].val # 0

\* Reached: a call on a zero-value Mtx[T] has panicked.
C28_ZeroMtxPanics ==
    \E t \in Threads : work = "zero" /\ variant \in {"mtx", "rwMtx"} /\ ret[t].panic

\* ---- C29
\* The guarded field together with the map or the backing array it refers to.
Guarded ==
    CASE Kind(work) = "map" -> <<v, heap[v]>>
      [] Kind(work) = "slice" -> <<v, heap[v.a]>>
      [] OTHER -> <<v>>
\* A statement of the closure of goroutine t's operation runs in this step.
Runs(t) == pc[t] \in {"cb", "cbw"} /\ pc'[t] # pc[t]

\* C29: no operation touches the guarded value outside a scope.  Every statement of
\* the closure of Load, Store, Swap or of a Map, Slice or Number operation runs
\* while the calling goroutine holds the instance's lock, shared or exclusive; and
\* whenever the guarded value changes, the step is a closure statement of a
\* goroutine that holds the lock exclusively (so nothing is written under a shared
\* hold, and nothing by a goroutine without the lock).
C29_AccessInScope ==
    [][ /\ \A t \in Threads : Runs(t) => Holds(t)
        /\ Guarded' # Guarded => \E t \in Threads : Runs(t) /\ mu.w = t ]_vars

\* Reached: on an RWMutex[T], an operation has written the value under its
\* exclusive hold while a reading operation of another goroutine waits for the lock.
C29_Witness ==
    \E t, u \in Threads :
        /\ t # u /\ variant = "baseRWMutex"
        /\ pc[t] = "unlock" /\ mu.w = t /\ Content # pre[t]
        /\ pc[u] = "lock" /\ UsesRWith(call[u].op)

\* Reached: two goroutines read the value at the same time, each under a shared hold.
C29_SharedReads ==
    \E t, u \in Threads :
        /\ t # u /\ pc[t] = "cb" /\ pc[u] = "cb"
        /\ t \in mu.r /\ u \in mu.r

\* ---- C40
\* C40: Number arithmetic on a w-bit integer type is modular and never fails.
\* Sub(d) leaves (value - d) mod 2^w, also when d is greater than the value; Add(d)
\* leaves (value + d) mod 2^w, also past the maximum; neither panics; and Add(d)
\* followed by Sub(d) restores the value the Add found, for every value and every
\* d, including when the Add overflowed.
C40_ModularArithmetic ==
    \A t \in Threads :
        (Returned(t) /\ work = "arith") =>
            /\ ~ret[t].panic
            /\ call[t].op = "Add" => v = (pre[t] + call[t].x) % Mod
            /\ call[t].op = "Sub" => v = (pre[t] - call[t].x) % Mod
            /\ v \in 0..(Mod - 1)
            /\ (call[t].op = "Sub" /\ last[t].call.op = "Add"
                   /\ last[t].call.x = call[t].x) => v = last[t].pre

\* Reached: Sub(d) has restored the value after an Add(d) that went past the maximum.
C40_Witness ==
    \E t \in Threads :
        /\ Returned(t) /\ work = "arith"
        /\ call[t].op = "Sub" /\ last[t].call.op = "Add" /\ last[t].call.x = call[t].x
        /\ last[t].pre + call[t].x >= Mod
        /\ v = last[t].pre

\* Reached: Sub(d) with d greater than the value has wrapped.
C40_SubWraps ==
    \E t \in Threads :
        /\ Returned(t) /\ work = "arith" /\ call[t].op = "Sub"
        /\ call[t].x > pre[t] /\ v = Mod + pre[t] - call[t].x

\* ---- C38
\* The call of goroutine t is With or WithE with a callback that assigns, and the
\* callback ends with an error or a panic.
WritesAndFails(c) == c.op \in {"With", "WithE"} /\ c.body = "write" /\ c.e # NilErr

\* C38: WithE does not roll back.  When the callback has assigned through the
\* pointer and then returns a non-nil error or panics, the guarded value is the
\* assigned one when the scope ends; the outcome shows only in what the call
\* returns (the error for WithE, the panic); and the read scope a lone goroutine
\* opens next sees the assigned value.
C38_NoRollback ==
    \A t \in Threads :
        /\ (pc[t] = "unlock" /\ WritesAndFails(call[t])) =>
              /\ v = call[t].x
              /\ call[t].e = "panic" => ret[t].panic
              /\ (call[t].e # "panic" /\ call[t].op = "WithE") => ret[t].err = call[t].e
        /\ (Returned(t) /\ WritesAndFails(call[t])) => v = call[t].x
        /\ (nthr = 1 /\ pc[t] = "unlock" /\ call[t].op \in {"RWith", "RWithE"}
               /\ WritesAndFails(last[t].call)) => tmp[t] = last[t].call.x

\* Reached: a lone goroutine's RWith has read the value that the WithE before it
\* assigned before returning an error.
C38_Witness ==
    \E t \in Threads :
        /\ nthr = 1 /\ work = "scope" /\ pc[t] = "unlock" /\ call[t].op = "RWith"
        /\ last[t].call.op = "WithE" /\ last[t].call.e = "e1"
        /\ last[t].ret.err = "e1"
        /\ last[t].pre # last[t].call.x
        /\ tmp[t] = last[t].call.x

\* ---- C32
\* The read scope of goroutine t has run its callback and not yet unlocked.
ReadScopeEnds(t) == pc[t] = "unlock" /\ call[t].op \in {"RWith", "RWithE"}

\* C32 as stated: inside a shared scope the callback has a read-only view; whatever
\* it does with its argument, the guarded value when the scope ends is the one the
\* scope found, for every T.
C32_ReadOnlyView ==
    \A t \in Threads : ReadScopeEnds(t) => Content = pre[t]

\* C32, amended: the callback of RWith/RWithE gets a copy of the guarded field.
\* For a T without references the copy is the callback's own: assigning to it leaves
\* the guarded value as the scope found it.  For a map T the copy refers to the
\* guarded map: the field is the same reference when the scope ends, and what a
\* lone goroutine's callback wrote into its argument is in the guarded map.
C32_ViewIsCopyOfField ==
    \A t \in Threads :
        ReadScopeEnds(t) =>
            /\ Kind(work) = "value" => Content = pre[t]
            /\ Kind(work) = "map" => v = 1
            /\ (Kind(work) = "map" /\ nthr = 1 /\ call[t].body = "poke")
                  => Content = MapPut(pre[t], call[t].k, call[t].x)

\* Reached: a callback has assigned another value to its parameter, and the
\* guarded value is still the one the scope found.
C32_Witness ==
    \E t \in Threads :
        /\ work = "view" /\ ReadScopeEnds(t) /\ call[t].body = "local"
        /\ tmp[t] = call[t].x /\ tmp[t] # v /\ v = pre[t]

\* Reached: the callback of RWith on a map has changed the guarded map.
C32_MapChangedInReadScope ==
    \E t \in Threads :
        /\ work = "mapview" /\ nthr = 1 /\ ReadScopeEnds(t) /\ call[t].body = "poke"
        /\ Content # pre[t]

\* ---- C33
\* C33: the map returned by Load on a Map is the guarded map itself and not a copy.
\* Load returns the guarded reference; an Insert made through the container after
\* the Load shows in the returned map; a write made directly into the returned map,
\* without the lock, is in the guarded map, and the Get of that key that follows
\* returns the written value.
C33_LoadIsTheMap ==
    \A t \in Threads :
        (Returned(t) /\ work = "mapload") =>
            /\ call[t].op = "Load" => ret[t].val = v /\ Content = pre[t]
            /\ (call[t].op = "Insert" /\ last[t].call.op = "Load") =>
                  /\ call[t].k \in DOMAIN Denotes(last[t].ret.val)
                  /\ Denotes(last[t].ret.val)[call[t].k] = call[t].x
                  /\ Denotes(last[t].ret.val) = Content
            /\ (call[t].op = "Touch" /\ last[t].call.op = "Load") =>
                  Content = MapPut(last[t].pre, call[t].k, call[t].x)
            /\ (call[t].op = "Get" /\ last[t].call.op = "Touch"
                   /\ call[t].k = last[t].call.k) =>
                  ret[t].ok /\ ret[t].val = last[t].call.x

\* Reached: Get has returned the value that the caller wrote, after Load and
\* without the lock, into the returned map.
C33_Witness ==
    \E t \in Threads :
        /\ Returned(t) /\ work = "mapload" /\ ncalls = LoadSteps
        /\ call[t].op = "Get" /\ last[t].call.op = "Touch" /\ call[t].k = last[t].call.k
        /\ ret[t].ok /\ ret[t].val = last[t].call.x /\ ret[t].val = MaxVal

\* ---- C34
\* The sequence q lists every element of the set S exactly once.
ListsOnce(q, S) == Len(q) = Cardinality(S) /\ {q[i] : i \in 1..Len(q)} = S
\* The sequence q holds one value per entry of the map m.
OnePerEntry(q, m) ==
    \E ord \in Perms(DOMAIN m) : q = [i \in 1..Len(ord) |-> m[ord[i]]]
\* The operation op of goroutine t has run its closure to the end.
Ended(t, op) == pc[t] \in {"unlock", "idle"} /\ call[t].op = op

\* C34: Keys and Values are snapshots of one state, the map as it was when the
\* operation got the lock.  Keys holds every key of that map exactly once, Values
\* one value per entry of it, both have its length, and on an empty map both are
\* empty; the map did not change while the operation held the lock, so an Insert,
\* a Remove or a Clear of another goroutine is in the result entirely or not at all.
C34_Snapshot ==
    \A t \in Threads :
        /\ Ended(t, "Keys") =>
              /\ ListsOnce(ret[t].val, DOMAIN pre[t])
              /\ Len(ret[t].val) = Size(pre[t])
              /\ pre[t] = EmptyMap => ret[t].val = <<>>
        /\ Ended(t, "Values") =>
              /\ OnePerEntry(ret[t].val, pre[t])
              /\ Len(ret[t].val) = Size(pre[t])
              /\ pre[t] = EmptyMap => ret[t].val = <<>>
        /\ (pc[t] \in {"cbw", "unlock"} /\ call[t].op \in {"Keys", "Values"}) =>
              Content = pre[t]

\* Reached: Keys has gone through a map of two entries while an Insert, a Remove or
\* a Clear of another goroutine waits for the lock.
C34_Witness ==
    \E t, u \in Threads :
        /\ t # u /\ work = "snapshot"
        /\ pc[t] = "unlock" /\ call[t].op = "Keys" /\ Len(ret[t].val) = 2
        /\ pc[u] \in {"lock", "wait"} /\ call[u].op \in {"Insert", "Remove", "Clear"}

\* ---- C35
\* The calls clb(k, v) that a traversal of the map m makes.
Entries(m) == {<<k, m[k]>> : k \in DOMAIN m}

\* C35: Each on a Map or a Slice calls the callback exactly once for every entry
\* present when it got the lock, for a Slice in index order 0 .. Len-1 and for a
\* Map in some order.  From the first callback to the last the goroutine holds the
\* lock it took with RLock (the read lock on a ReadWrite backend, the lock itself on
\* a Mutex backend), and the collection stays as it was found: no mutating
\* operation of another goroutine takes effect between two callbacks.
C35_EachTraversal ==
    \A t \in Threads :
        /\ (pc[t] \in {"cbw", "unlock"} /\ call[t].op = "Each") =>
              /\ IF Backend(variant) = "RWMutex" THEN t \in mu.r ELSE mu.w = t
              /\ Content = pre[t]
              /\ \A u \in Threads \ {t} : pc[u] \in {"cb", "cbw", "unlock"} => u \in mu.r
        /\ Ended(t, "Each") =>
              IF Kind(work) = "map" THEN ListsOnce(ret[t].val, Entries(pre[t]))
              ELSE ret[t].val = pre[t]

\* Reached: Each has called the callback for both elements of a slice, in index
\* order, while the Remove of another goroutine waits for the lock.
C35_Witness ==
    \E t, u \in Threads :
        /\ t # u /\ work = "sliceeach"
        /\ pc[t] = "unlock" /\ call[t].op = "Each"
        /\ Len(pre[t]) = 2 /\ ret[t].val = <<pre[t][1], pre[t][2]>>
        /\ pc[u] \in {"lock", "wait"} /\ call[u].op = "Remove"

\* Reached: Each has gone through a map of two entries while a Remove waits.
C35_MapTraversal ==
    \E t, u \in Threads :
        /\ t # u /\ work = "each"
        /\ pc[t] = "unlock" /\ call[t].op = "Each" /\ Len(ret[t].val) = 2
        /\ pc[u] \in {"lock", "wait"} /\ call[u].op = "Remove"

\* ---- C36
\* The number of entries of a map, the number of elements of a slice.
Count(x) == IF Kind(work) = "map" THEN Size(x) ELSE Len(x)
IsCleared(x) == IF Kind(work) = "map" THEN x = EmptyMap ELSE x = <<>>

\* C36: Clear on a Map or a Slice removes every entry in one exclusive scope.  When
\* its closure has ended the collection is empty; the Len, IsEmpty and Load a lone
\* goroutine calls next return 0, true and an empty collection; a reader next to
\* concurrent Clears finds the collection as it was at the start or empty, never
\* partly cleared; and in every state IsEmpty returns true exactly when the
\* collection it found has Len 0.
C36_Clear ==
    \A t \in Threads :
        /\ (pc[t] = "unlock" /\ call[t].op = "Clear") => mu.w = t /\ IsCleared(Content)
        /\ (pc[t] = "idle" /\ call[t].op = "Clear") => IsCleared(Content)
        /\ (pc[t] \in {"cb", "unlock"} /\ call[t].op \in {"Len", "IsEmpty", "Load"}) =>
              /\ pre[t] = v0 \/ IsCleared(pre[t])
              /\ Content = pre[t]
        /\ Ended(t, "Len") => ret[t].val = Count(pre[t])
        /\ Ended(t, "IsEmpty") => (ret[t].ok <=> Count(pre[t]) = 0)
        /\ (pc[t] = "unlock" /\ call[t].op = "Load") => Denotes(ret[t].val) = pre[t]
        /\ (Returned(t) /\ last[t].call.op = "Clear") =>
              /\ call[t].op = "Len" => ret[t].val = 0
              /\ call[t].op = "IsEmpty" => ret[t].ok
              /\ call[t].op = "Load" => IsCleared(Denotes(ret[t].val))

\* Reached: after the Clear of a Map that had entries, IsEmpty has returned true to
\* the lone goroutine.
C36_Witness ==
    \E t \in Threads :
        /\ work = "mapclear" /\ Returned(t)
        /\ last[t].call.op = "Clear" /\ Count(last[t].pre) > 0
        /\ call[t].op = "IsEmpty" /\ ret[t].ok

\* Reached: a Len next to a concurrent Clear of a Slice has returned 0 for a slice
\* that had elements at the start.
C36_ConcurrentReader ==
    \E t, u \in Threads :
        /\ t # u /\ work = "sliceclear" /\ nthr > 1
        /\ pc[t] = "idle" /\ call[t].op = "Len" /\ ret[t].val = 0 /\ Count(v0) > 0
        /\ call[u].op = "Clear"

\* ---- C37
\* Goroutine t holds the lock in the mode of its operation, and in no other.
HoldsInMode(t) ==
    IF Mode(variant, call[t].op) = "S" THEN t \in mu.r /\ mu.w # t
    ELSE mu.w = t /\ t \notin mu.r
\* Between its acquire and its release an operation holds the lock in its mode;
\* before and after, its goroutine holds nothing; with no operation in progress the
\* lock has no holders and no writer is announced.
Paired ==
    /\ \A t \in Threads :
          /\ Inside(t) => HoldsInMode(t)
          /\ ~Inside(t) => ~Holds(t)
          /\ pc[t] = "idle" => mu.p # t
    /\ AllIdle => mu = Unlocked
\* A goroutine becomes a holder only by the acquire of its operation, which has not
\* acquired before, and in the operation's mode (Lock or RLock); it stops being one
\* only by the release at the end of that operation, which it leaves with it.
PairedStep ==
    \A t \in Threads :
        /\ (~Holds(t) /\ (mu'.w = t \/ t \in mu'.r)) =>
              /\ pc[t] \in {"lock", "wait"} /\ pc'[t] = "cb"
              /\ IF Mode(variant, call[t].op) = "S" THEN t \in mu'.r ELSE mu'.w = t
        /\ (Holds(t) /\ ~(mu'.w = t \/ t \in mu'.r)) =>
              /\ pc[t] = "unlock" /\ pc'[t] = "idle"
              /\ mu' = (IF Mode(variant, call[t].op) = "S" THEN RUnlock(mu, t)
                        ELSE Unlock(mu, t))
        /\ (pc[t] = "unlock" /\ pc'[t] = "idle") => Holds(t) /\ ~(mu'.w = t \/ t \in mu'.r)

\* C37: acquire and release are paired.  Every operation acquires the instance's
\* lock once and releases it once, in the same mode on the same lock (Lock with
\* Unlock, RLock with RUnlock); no release happens without the acquire of the same
\* operation before it; and whenever no operation is in progress the lock has no
\* holders.  For every wrapper type, Load, Store and Swap on NewRW* containers
\* included, whose methods are promoted from the embedded base.
C37_Paired == []Paired /\ [][PairedStep]_vars

\* Reached: on a container built by NewRWMtx, a Load (promoted from base, where
\* RLock is Lock and RUnlock is Unlock) and an RWith (rwMtx's own, on the read
\* lock) have both returned, and the lock is free.
C37_Witness ==
    \E t, u \in Threads :
        /\ t # u /\ variant = "rwMtx" /\ AllIdle /\ mu = Unlocked
        /\ call[t].op = "Load" /\ call[u].op \in {"RWith", "RWithE"}

\* ---- C39
\* The values the removals that have returned handed out.
Handed == {given[i] : i \in 1..Len(given)}
\* The runs in which no more removals are called than the slice has elements.
Enough == work \in {"pops", "shifts"} /\ nthr <= Len(v0)
\* C39: concurrent removals hand out each element once.  When a Slice holds n
\* elements and m <= n goroutines each call Pop (or each call Shift) concurrently,
\* with no other mutator, the m returned values come from m distinct positions of
\* the original sequence (the last m for Pop, the first m for Shift), no element is
\* returned twice or lost, and the slice afterwards holds exactly the other n - m
\* elements in their original order.
C39_EachElementOnce ==
    Enough =>
        LET n == Len(v0)
            k == Len(given)
        IN  /\ \A t \in Threads : ~ret[t].panic
            /\ \A i, j \in 1..k : i # j => given[i] # given[j]
            /\ k <= n
            /\ work = "pops" => \A i \in 1..k : given[i] = v0[n - i + 1]
            /\ work = "shifts" => \A i \in 1..k : given[i] = v0[i]
            /\ (AllIdle /\ ncalls = nthr) =>
                  /\ k = nthr
                  /\ Content = (IF work = "pops" THEN SubSeq(v0, 1, n - k)
                                ELSE SubSeq(v0, k + 1, n))
                  /\ Handed \cup {Content[i] : i \in 1..Len(Content)}
                        = {v0[i] : i \in 1..n}

\* Reached: every goroutine has called Pop, all calls have returned, and elements
\* are left in the slice.
C39_Witness ==
    /\ Enough /\ work = "pops" /\ AllIdle /\ ncalls = nthr
    /\ Len(given) = nthr /\ Len(Content) > 0
    /\ \A t \in Threads : call[t].op = "Pop" /\ ~ret[t].panic
\* Reached: two Shift calls are in progress together, one in its critical section
\* and one waiting for the lock.
C39_Concurrent ==
    \E t, u \in Threads :
        /\ Enough /\ work = "shifts" /\ t # u
        /\ Inside(t) /\ pc[u] \in {"lock", "wait"}

\* ---- C31
\* The operation of goroutine u has got the lock (and perhaps returned already).
Past(u) == call[u].op # "none" /\ pc[u] \notin {"lock", "wait"}
\* The operation goroutine t is in takes the read lock of an RWMutex.
TakesRLock(t) == Backend(variant) = "RWMutex" /\ Mode(variant, call[t].op) = "S"
\* Next to a callback that never returns, only an operation that takes the read lock
\* gets the lock, and only when the callback runs under the read lock as well.
OnlyReadersPass ==
    \A t, u \in DOMAIN pc :
        (t # u /\ Began(t) /\ Past(u)) => TakesRLock(t) /\ TakesRLock(u)
\* Once an exclusive operation has announced itself, no operation gets the lock
\* any more.
NonePassesWriter ==
    \A t, u \in DOMAIN pc :
        (t # u /\ Began(t) /\ mu.p # NoThread /\ pc[u] \in {"lock", "wait"})
            => pc'[u] \in {"lock", "wait"}

\* C31: starvation by a stuck holder.  If a callback never returns, every other
\* operation subsequently invoked on that instance blocks forever, whatever the
\* access mode of the stuck callback, whatever the access mode of the other
\* operation, and whichever backend is used.
C31_AllBlocked ==
    \A t, u \in DOMAIN pc : (t # u /\ Began(t)) => ~Past(u)

\* C31, as the code has it: every other operation invoked afterwards never gets the
\* lock, except an operation that takes the read lock of an RWMutex backend while
\* the stuck callback holds the read lock too; that one can run and return, until
\* an exclusive operation is waiting for the lock, after which no operation gets it.
C31_Starves == []OnlyReadersPass /\ [][NonePassesWriter]_vars

\* Reached: next to a callback stuck under the read lock of an RWMutex, an RWith
\* invoked later has run and returned, and a Store invoked later has announced
\* itself and waits for the lock.
C31_Witness ==
    \E t, u, w \in DOMAIN pc :
        /\ Began(t) /\ TakesRLock(t) /\ pc[t] = "cb" /\ mu.r = {t}
        /\ call[u].op = "RWith" /\ pc[u] = "idle" /\ runs[u] = 1
        /\ call[w].op = "Store" /\ pc[w] = "wait" /\ mu.p = w
\* Reached: on a Mutex backend, a shared operation and a Load wait for the lock that
\* a callback stuck in RWith holds.
C31_MutexBlocks ==
    \E t, u, w \in DOMAIN pc :
        /\ Began(t) /\ call[t].op = "RWith" /\ Backend(variant) = "Mutex"
        /\ call[u].op = "RWith" /\ pc[u] = "lock"
        /\ call[w].op = "Load" /\ pc[w] = "lock"

====
